---- MODULE Spec2Model ----
(***************************************************************************)
(* The KR-code decoder of Scripts/langtools/utils/readkr.py.               *)
(*                                                                         *)
(* A Python string is a sequence of one-character strings; positions are   *)
(* Python's (0-based), so the character at position pos is code[pos+1].    *)
(* A raised exception is the number of the source line that raises it      *)
(* (field "line"; 0 when nothing was raised).  What cerr and               *)
(* sys.stderr.write print is a sequence of records [msg, text].            *)
(***************************************************************************)
EXTENDS Integers, Sequences, FiniteSets, TLC

(***************************************************************************)
(* Python string primitives                                                *)
(***************************************************************************)

\* s.find(c): the lowest 0-based index of the character c in s, -1 if absent.
Find(s, c) ==
  IF \E k \in 1..Len(s) : s[k] = c
    THEN (CHOOSE k \in 1..Len(s) : s[k] = c /\ \A j \in 1..(k-1) : s[j] # c) - 1
    ELSE -1

\* s[a:b] for 0 <= a <= b <= len(s).
Slice(s, a, b) == SubSeq(s, a + 1, b)

\* s.split(sep) for a one-character separator: always at least one piece.
RECURSIVE Split(_, _), SplitAt(_, _, _)
Split(s, sep) == SplitAt(s, sep, Find(s, sep))
SplitAt(s, sep, k) ==
  IF k = -1 THEN <<s>>
  ELSE <<Slice(s, 0, k)>> \o Split(Slice(s, k + 1, Len(s)), sep)

\* "".join(seq of strings)
RECURSIVE Concat(_)
Concat(ss) == IF ss = <<>> THEN <<>> ELSE Head(ss) \o Concat(Tail(ss))

Min(a, b) == IF a <= b THEN a ELSE b

(***************************************************************************)
(* class Node                                                              *)
(***************************************************************************)

\* Node(): no children, empty value.
Node == [value |-> <<>>, children |-> <<>>]

\* Node.__str__
RECURSIVE NodeStr(_)
NodeStr(n) ==
  n.value \o Concat([k \in 1..Len(n.children) |->
                       <<"<">> \o NodeStr(n.children[k]) \o <<">">>])

(***************************************************************************)
(* descent and analyzeKR                                                   *)
(***************************************************************************)

\* Lines 76-79: find()'s -1 stands for the end of the code.
OrEnd(k, mx) == IF k = -1 THEN mx ELSE k

\* A nextPos that takes no text.
nextPosOf_Stay(code, pos) == pos

\* Lines 73-80: nextPos, the offset of the next "<" or ">" at or after pos,
\* the length of the code when there is none.
nextPosOf(code, pos) ==
  pos + Min(OrEnd(Find(Slice(code, pos, Len(code)), "<"), Len(code) - pos),
            OrEnd(Find(Slice(code, pos, Len(code)), ">"), Len(code) - pos))

\* descent(code, pos, leaf): the offset returned and the leaf as the call left
\* it; ok = FALSE and the line of the failed assert when it raises.
\* descentChild is lines 65-68 and 84 once the call on the new child, sub,
\* is back; descentValue is lines 81-84 with nextPos computed.
RECURSIVE descent(_, _, _), descentChild(_, _, _), descentValue(_, _, _, _)
descent(code, pos, leaf) ==
  IF pos = Len(code) THEN [ok |-> TRUE, pos |-> pos, leaf |-> leaf, line |-> 0]
  ELSE IF code[pos + 1] = "<" THEN
    IF leaf.value = <<>>
      THEN [ok |-> FALSE, pos |-> pos, leaf |-> leaf, line |-> 64]
      ELSE descentChild(code, leaf, descent(code, pos + 1, Node))
  ELSE IF code[pos + 1] = ">" THEN
    [ok |-> TRUE, pos |-> pos + 1, leaf |-> leaf, line |-> 0]
  ELSE descentValue(code, pos, leaf, nextPosOf(code, pos))

descentChild(code, leaf, sub) ==
  IF ~sub.ok
    THEN [ok |-> FALSE, pos |-> sub.pos, leaf |-> leaf, line |-> sub.line]
    ELSE descent(code, sub.pos, [leaf EXCEPT !.children = Append(@, sub.leaf)])

descentValue(code, pos, leaf, nextPos) ==
  IF leaf.value # <<>>
    THEN [ok |-> FALSE, pos |-> pos, leaf |-> leaf, line |-> 81]
    ELSE descent(code, nextPos, [leaf EXCEPT !.value = Slice(code, pos, nextPos)])

\* Lines 98-107 of analyzeKR, d being what descent(code, 0, root) gave: the
\* root built, or the line that raised, with the "Invalid KR" line the
\* except clause writes before re-raising.
analyzeKRChecked(code, d) ==
  IF d.ok /\ d.pos = Len(code)
    THEN [ok |-> TRUE, root |-> d.leaf, line |-> 0, stderr |-> <<>>]
    ELSE [ok |-> FALSE, root |-> d.leaf, line |-> IF d.ok THEN 98 ELSE d.line,
          stderr |-> <<[msg |-> "Invalid KR: ", text |-> code]>>]

\* analyzeKR(code)
analyzeKR(code) == analyzeKRChecked(code, descent(code, 0, Node))

(***************************************************************************)
(* class KRCode                                                            *)
(***************************************************************************)

\* KRCode(): empty stem, no chain nodes, no decorator groups.
KRCode == [stem |-> <<>>, krNodes |-> <<>>, kepzos |-> <<>>]

\* The "[k1][k2]..." text of one decorator group (line 51).
GroupStr(kepzoGroup) ==
  Concat([k \in 1..Len(kepzoGroup) |->
            <<"[">> \o NodeStr(kepzoGroup[k]) \o <<"]">>])

\* KRCode.__str__: the rendering s, or line 45 when its assert fails.
KRCodeStr(k) ==
  IF (Len(k.krNodes) - Len(k.kepzos)) \notin {0, 1}
    THEN [ok |-> FALSE, s |-> <<>>, line |-> 45]
    ELSE [ok |-> TRUE, line |-> 0,
          s |-> k.stem \o <<"/">> \o
                Concat([j \in 1..Len(k.krNodes) |->
                  NodeStr(k.krNodes[j])
                  \o (IF j - 1 < Len(k.kepzos) THEN GroupStr(k.kepzos[j]) ELSE <<>>)
                  \o (IF j - 1 < Len(k.krNodes) - 1 THEN <<"/">> ELSE <<>>)])]

(***************************************************************************)
(* The decorator scanner of analyzeConstituent (lines 156-198)             *)
(***************************************************************************)

START == 0
OUT == 1
IN_ == 2

UpperCase ==
  {"A", "B", "C", "D", "E", "F", "G", "H", "I", "J", "K", "L", "M",
   "N", "O", "P", "Q", "R", "S", "T", "U", "V", "W", "X", "Y", "Z"}

Digits == {"0", "1", "2", "3", "4", "5", "6", "7", "8", "9"}

\* The test of lines 179-187 on a character read inside a bracket.
KepzoCharOk(c) == c \in UpperCase \/ c \in Digits \/ c \in {"_", "-"} \/ c \in {"<", ">"}

\* The scanner's variables before the while loop.
ScanInit == [state |-> START, kepzo |-> <<>>, kepzoGroup |-> <<>>,
             line |-> 0, stderr |-> <<>>]

\* Lines 171-177: "]" read in state IN, parsedKepzo being analyzeKR(kepzo).
scanClose(st, parsedKepzo) ==
  IF ~parsedKepzo.ok
    THEN [st EXCEPT !.state = OUT, !.line = parsedKepzo.line,
                    !.stderr = @ \o parsedKepzo.stderr]
    ELSE [st EXCEPT !.state = OUT, !.kepzoGroup = Append(@, parsedKepzo.root),
                    !.kepzo = <<>>]

\* The loop body were state OUT to skip what is not "[", as START does.
scanStep_Lenient(st, c) ==
  IF st.state = START \/ st.state = OUT THEN
    IF c = "]" /\ st.state = START THEN [st EXCEPT !.line = 164]
    ELSE IF c = "[" THEN [st EXCEPT !.state = IN_, !.kepzo = <<>>]
    ELSE st
  ELSE
    IF c = "[" THEN [st EXCEPT !.line = 169]
    ELSE IF c = "]" THEN scanClose(st, analyzeKR(st.kepzo))
    ELSE IF ~KepzoCharOk(c) THEN [st EXCEPT !.line = 189]
    ELSE [st EXCEPT !.kepzo = Append(@, c)]

\* One pass of the while loop body on the character c (lines 162-193).
scanStep(st, c) ==
  IF st.state = START THEN
    IF c = "]" THEN [st EXCEPT !.line = 164]
    ELSE IF c = "[" THEN [st EXCEPT !.state = IN_, !.kepzo = <<>>]
    ELSE st
  ELSE IF st.state = IN_ THEN
    IF c = "[" THEN [st EXCEPT !.line = 169]
    ELSE IF c = "]" THEN scanClose(st, analyzeKR(st.kepzo))
    ELSE IF ~KepzoCharOk(c) THEN [st EXCEPT !.line = 189]
    ELSE [st EXCEPT !.kepzo = Append(@, c)]
  ELSE
    IF c # "[" THEN [st EXCEPT !.line = 192]
    ELSE [st EXCEPT !.state = IN_]

\* The while loop from position pos on; it stops where a pass raises.
RECURSIVE scanFrom(_, _, _)
scanFrom(part, pos, st) ==
  IF st.line # 0 \/ pos = Len(part) THEN st
  ELSE scanFrom(part, pos + 1, scanStep(st, part[pos + 1]))

\* Line 196: the assert after the loop.
scanEnd(st) ==
  IF st.line = 0 /\ st.state = IN_ THEN [st EXCEPT !.line = 196] ELSE st

\* The whole scan of one part.
scanKepzos(part) == scanEnd(scanFrom(part, 0, ScanInit))

(***************************************************************************)
(* analyzeConstituent                                                      *)
(***************************************************************************)

\* Lines 119-127, p being stem.find("{"): the stripping of a trailing
\* "{...}" marker.
stripMarker(stem, p) ==
  IF Len(stem) > 0 /\ stem[Len(stem)] = "}" THEN
    IF p = -1 THEN [line |-> 121, realStem |-> <<>>]
    ELSE IF Find(Slice(stem, 0, p), "}") # -1 THEN [line |-> 123, realStem |-> <<>>]
    ELSE [line |-> 0, realStem |-> Slice(stem, 0, p)]
  ELSE IF p # -1 THEN [line |-> 126, realStem |-> <<>>]
  ELSE [line |-> 0, realStem |-> stem]

\* Lines 114-127: the asserts on the stem, then the marker.  realStem is the
\* stem kept; line is the assert that failed.
realStemOf(stem) ==
  IF Find(stem, "<") # -1 THEN [line |-> 115, realStem |-> <<>>]
  ELSE IF Find(stem, ">") # -1 THEN [line |-> 116, realStem |-> <<>>]
  ELSE IF Find(stem, "[") # -1 THEN [line |-> 117, realStem |-> <<>>]
  ELSE IF Find(stem, "]") # -1 THEN [line |-> 118, realStem |-> <<>>]
  ELSE stripMarker(stem, Find(stem, "{"))

\* kepzoRequired with the cerr of line 138 left out: the assert raises and
\* nothing was written.
kepzoRequired_Silent(part, i, n) ==
  IF i # n - 1 /\ Find(part, "[") = -1
    THEN [line |-> 139, stderr |-> <<>>]
    ELSE [line |-> 0, stderr |-> <<>>]

\* Lines 136-139: every part but the last (index n-1) must hold a "[".
kepzoRequired(part, i, n) ==
  IF i # n - 1 /\ Find(part, "[") = -1
    THEN [line |-> 139, stderr |-> <<[msg |-> "MISSING KEPZO: ", text |-> part]>>]
    ELSE [line |-> 0, stderr |-> <<>>]

\* mainCategoryEnd without the exemption of line 147: p = 0 raises at every
\* position.
mainCategoryEnd_Strict(part, i) ==
  IF OrEnd(Find(part, "["), Len(part)) = 0
    THEN [line |-> 149, p |-> 0,
          stderr |-> <<[msg |-> "SUBCATEGORIZATION (empty main category) IS ONLY ALLOWED AT THE FIRST POSITION: ",
                        text |-> part]>>]
    ELSE [line |-> 0, p |-> OrEnd(Find(part, "["), Len(part)), stderr |-> <<>>]

\* Lines 141-149: p, the end of the main KR part; it may be 0 only at i = 0.
mainCategoryEnd(part, i) ==
  IF OrEnd(Find(part, "["), Len(part)) = 0 /\ i # 0
    THEN [line |-> 149, p |-> 0,
          stderr |-> <<[msg |-> "SUBCATEGORIZATION (empty main category) IS ONLY ALLOWED AT THE FIRST POSITION: ",
                        text |-> part]>>]
    ELSE [line |-> 0, p |-> OrEnd(Find(part, "["), Len(part)), stderr |-> <<>>]

\* appendKepzoGroup without the test of line 197: the group is stored even
\* when the part had no decorator.
appendKepzoGroup_Always(kepzos, kepzoGroup) == Append(kepzos, kepzoGroup)

\* Lines 197-198: a group is stored only when it is not empty.
appendKepzoGroup(kepzos, kepzoGroup) ==
  IF Len(kepzoGroup) > 0 THEN Append(kepzos, kepzoGroup) ELSE kepzos

\* The body of the for loop (lines 136-198) in the order the code runs it:
\* req is lines 136-139, cat lines 141-149, krNode line 150, scan lines
\* 156-196.
partStepOf(krCode, req, cat, krNode, scan) ==
  IF req.line # 0 THEN [line |-> req.line, krCode |-> krCode, stderr |-> req.stderr]
  ELSE IF cat.line # 0 THEN [line |-> cat.line, krCode |-> krCode, stderr |-> cat.stderr]
  ELSE IF ~krNode.ok
    THEN [line |-> krNode.line, krCode |-> krCode, stderr |-> krNode.stderr]
  ELSE IF scan.line # 0
    THEN [line |-> scan.line, stderr |-> scan.stderr,
          krCode |-> [krCode EXCEPT !.krNodes = Append(@, krNode.root)]]
  ELSE [line |-> 0, stderr |-> <<>>,
        krCode |-> [krCode EXCEPT !.krNodes = Append(@, krNode.root),
                                  !.kepzos = appendKepzoGroup(@, scan.kepzoGroup)]]

\* Line 150: the main KR part is part[:p].
mainKR(part, cat) == analyzeKR(Slice(part, 0, cat.p))

partStepAt(krCode, part, i, n, cat) ==
  partStepOf(krCode, kepzoRequired(part, i, n), cat, mainKR(part, cat),
             scanKepzos(part))

\* One pass of the for loop, for part number i (0-based) of n.
partStep(krCode, part, i, n) ==
  partStepAt(krCode, part, i, n, mainCategoryEnd(part, i))

\* The for loop over parts = tkr[1:] from part number i on; at is the part
\* number at which it raised, -1 when it did not.
RECURSIVE partLoop(_, _, _), partNext(_, _, _)
partLoop(parts, i, krCode) ==
  IF i = Len(parts) THEN [line |-> 0, at |-> -1, krCode |-> krCode, stderr |-> <<>>]
  ELSE partNext(parts, i, partStep(krCode, parts[i + 1], i, Len(parts)))

partNext(parts, i, step) ==
  IF step.line # 0
    THEN [line |-> step.line, at |-> i, krCode |-> step.krCode, stderr |-> step.stderr]
    ELSE partLoop(parts, i + 1, step.krCode)

\* roundTripOf with the comparison of line 200 left out.
roundTripOf_Unchecked(w, str) ==
  IF ~str.ok THEN [line |-> str.line, stderr |-> <<>>]
  ELSE [line |-> 0, stderr |-> <<>>]

\* Lines 200-202, str being str(krCode): the token must equal the rendering
\* of what was built.
roundTripOf(w, str) ==
  IF ~str.ok THEN [line |-> str.line, stderr |-> <<>>]
  ELSE IF w # str.s
    THEN [line |-> 202,
          stderr |-> <<[msg |-> " != ", text |-> w \o <<" ", "!", "=", " ">> \o str.s]>>]
    ELSE [line |-> 0, stderr |-> <<>>]

roundTrip(w, krCode) == roundTripOf(w, KRCodeStr(krCode))

\* The end of analyzeConstituent: rt is lines 200-202, line 204 returns.
constituentChecked(krCode, rt) ==
  IF rt.line # 0
    THEN [ok |-> FALSE, line |-> rt.line, at |-> -1, krCode |-> krCode,
          stderr |-> rt.stderr]
    ELSE [ok |-> TRUE, line |-> 0, at |-> -1, krCode |-> krCode, stderr |-> <<>>]

\* analyzeConstituent once the for loop has ended as loop.
constituentLooped(w, loop) ==
  IF loop.line # 0
    THEN [ok |-> FALSE, line |-> loop.line, at |-> loop.at, krCode |-> loop.krCode,
          stderr |-> loop.stderr]
    ELSE constituentChecked(loop.krCode, roundTrip(w, loop.krCode))

\* analyzeConstituent once the stem has been looked at (lines 114-129).
constituentStemmed(w, tkr, stem) ==
  IF stem.line # 0
    THEN [ok |-> FALSE, line |-> stem.line, at |-> -1, krCode |-> KRCode,
          stderr |-> <<>>]
    ELSE constituentLooped(w,
           partLoop(Tail(tkr), 0, [KRCode EXCEPT !.stem = stem.realStem]))

constituentSplit(w, tkr) == constituentStemmed(w, tkr, realStemOf(tkr[1]))

\* analyzeConstituent(w): the KRCode returned (ok), or the line that raised
\* (and at which part), with what was written to stderr on the way.
analyzeConstituent(w) == constituentSplit(w, Split(w, "/"))

\* analyze(t): one KRCode per "+"-separated constituent, in order; the first
\* constituent that raises ends the call.
RECURSIVE analyzeFrom(_, _, _), analyzeNext(_, _, _, _)
analyzeFrom(compounds, compoundIndex, krCodes) ==
  IF compoundIndex = Len(compounds)
    THEN [ok |-> TRUE, line |-> 0, krCodes |-> krCodes, stderr |-> <<>>]
    ELSE analyzeNext(compounds, compoundIndex, krCodes,
                     analyzeConstituent(compounds[compoundIndex + 1]))

\* A loop that leaves out the constituents that fail and goes on.
analyzeNext_Skip(compounds, compoundIndex, krCodes, c) ==
  IF ~c.ok
    THEN analyzeFrom(compounds, compoundIndex + 1, krCodes)
    ELSE analyzeFrom(compounds, compoundIndex + 1, Append(krCodes, c.krCode))

analyzeNext(compounds, compoundIndex, krCodes, c) ==
  IF ~c.ok
    THEN [ok |-> FALSE, line |-> c.line, krCodes |-> <<>>, stderr |-> c.stderr]
    ELSE analyzeFrom(compounds, compoundIndex + 1, Append(krCodes, c.krCode))

analyze(t) == analyzeFrom(Split(t, "+"), 0, <<>>)

(***************************************************************************)
(* Attribute dictionaries                                                  *)
(*                                                                         *)
(* A Python dict is a function from keys (strings) to values; a value is   *)
(* tagged with its Python type: <<"int", 1>>, <<"str", s>>, <<"dict", d>>. *)
(* d[k] = v is Put(d, k, v): the later assignment to a key replaces the    *)
(* earlier one.                                                            *)
(***************************************************************************)

PyInt(n) == <<"int", n>>
PyStr(s) == <<"str", s>>
PyDict(d) == <<"dict", d>>
IsDict(v) == v[1] = "dict"

EmptyDict == <<>>
Put(d, k, v) == (k :> v) @@ d
Has(d, k) == k \in DOMAIN d

K_CAT == <<"C", "A", "T">>
K_CAS == <<"C", "A", "S">>
K_NUM == <<"N", "U", "M">>
K_ANP == <<"A", "N", "P">>
K_DEF == <<"D", "E", "F">>
K_POSS == <<"P", "O", "S", "S">>
K_SRC == <<"S", "R", "C">>
K_DERIV == <<"D", "E", "R", "I", "V">>
K_TYPE == <<"T", "Y", "P", "E">>
K_STEM == <<"S", "T", "E", "M">>
S_NOUN == <<"N", "O", "U", "N">>
S_ADJ == <<"A", "D", "J">>
S_PLUR == <<"P", "L", "U", "R">>
S_NOM == <<"N", "O", "M">>
S_SING == <<"S", "I", "N", "G">>
S_0 == <<"0">>

\* Lines 241-244: the value of the attribute a child names.
childValue(ch_node) ==
  IF ch_node.children = <<>> THEN PyInt(1) ELSE PyStr(ch_node.children[1].value)

\* A default written whether or not the key is there.
PutDefault_Overwrite(d, k, v) == Put(d, k, v)

\* d[k] = v unless d already has the key k.
PutDefault(d, k, v) == IF Has(d, k) THEN d ELSE Put(d, k, v)

\* A dictionary builder that keeps the first value assigned to a key.
childEntry_FirstWins(dictionary, ch_node) ==
  IF ch_node.value = S_PLUR THEN PutDefault(dictionary, K_NUM, PyStr(S_PLUR))
  ELSE PutDefault(dictionary, ch_node.value, childValue(ch_node))

\* Lines 240-247: the entry one child of the node adds to the dictionary.
childEntry(dictionary, ch_node) ==
  IF ch_node.value = S_PLUR THEN Put(dictionary, K_NUM, PyStr(S_PLUR))
  ELSE Put(dictionary, ch_node.value, childValue(ch_node))

\* The for loop of lines 239-247 over the children from number k on (1-based).
RECURSIVE childEntries(_, _, _)
childEntries(dictionary, children, k) ==
  IF k > Len(children) THEN dictionary
  ELSE childEntries(childEntry(dictionary, children[k]), children, k + 1)

\* Lines 237-247: CAT and the entries of the node's children.
ownEntries(node) ==
  childEntries(Put(EmptyDict, K_CAT, PyStr(node.value)), node.children, 1)

\* Lines 250-254: SRC.DERIV of the decorator that leads to this position.
derivOf(kepzo) ==
  IF kepzo.children # <<>>
    THEN Put(Put(EmptyDict, K_CAT, PyStr(kepzo.value)),
             K_TYPE, PyStr(kepzo.children[1].value))
    ELSE Put(EmptyDict, K_CAT, PyStr(kepzo.value))

\* Lines 249-256: the SRC entry, stem being node_dictionary(nodes, kepzos, i-1).
attachSrc(own, kepzo, stem) ==
  IF ~stem.ok THEN stem
  ELSE [ok |-> TRUE, line |-> 0,
        d |-> Put(own, K_SRC,
                  PyDict(Put(Put(EmptyDict, K_DERIV, PyDict(derivOf(kepzo))),
                             K_STEM, PyDict(stem.d))))]

\* node_dictionary(nodes, kepzos, i), i being Python's 0-based index; an
\* index out of range raises at the line that subscripts (236, 251).
RECURSIVE node_dictionary(_, _, _), nodeWithSrc(_, _, _, _)
node_dictionary(nodes, kepzos, i) ==
  IF ~(i + 1 \in 1..Len(nodes)) THEN [ok |-> FALSE, line |-> 236, d |-> EmptyDict]
  ELSE nodeWithSrc(nodes, kepzos, i, ownEntries(nodes[i + 1]))

nodeWithSrc(nodes, kepzos, i, own) ==
  IF i > 0 THEN
    IF ~(i \in 1..Len(kepzos)) \/ kepzos[i] = <<>>
      THEN [ok |-> FALSE, line |-> 251, d |-> EmptyDict]
      ELSE attachSrc(own, kepzos[i][1], node_dictionary(nodes, kepzos, i - 1))
  ELSE [ok |-> TRUE, line |-> 0, d |-> own]

\* The defaults of a NOUN as a chain of alternatives: one key per call.
nounDefaults_ElifChain(d) ==
  IF d[K_CAT] # PyStr(S_NOUN) THEN d
  ELSE IF ~Has(d, K_CAS) THEN Put(d, K_CAS, PyStr(S_NOM))
  ELSE IF ~Has(d, K_NUM) THEN Put(d, K_NUM, PyStr(S_SING))
  ELSE IF ~Has(d, K_ANP) THEN Put(d, K_ANP, PyStr(S_0))
  ELSE IF ~Has(d, K_DEF) THEN Put(d, K_DEF, PyStr(S_0))
  ELSE PutDefault(d, K_POSS, PyStr(S_0))

\* Lines 216-226: the defaults of a NOUN.
nounDefaults(d) ==
  IF d[K_CAT] = PyStr(S_NOUN)
    THEN PutDefault(PutDefault(PutDefault(PutDefault(PutDefault(d,
           K_CAS, PyStr(S_NOM)), K_NUM, PyStr(S_SING)), K_ANP, PyStr(S_0)),
           K_DEF, PyStr(S_0)), K_POSS, PyStr(S_0))
    ELSE d

\* Lines 227-229: the default of an ADJ.
adjDefaults(d) ==
  IF d[K_CAT] = PyStr(S_ADJ) THEN PutDefault(d, K_CAS, PyStr(S_NOM)) ELSE d

\* Line 231, stem being fill_def_values(dict_attributes['SRC']['STEM']).  The
\* inner dictionary is filled in place, so it holds what the inner call
\* added even when that call raised.
fillStem(own, stem) ==
  [ok |-> stem.ok, line |-> stem.line,
   d |-> Put(own, K_SRC, PyDict(Put(own[K_SRC][2], K_STEM, PyDict(stem.d))))]

\* fill_def_values(dict_attributes); line 231 raises when SRC is not a
\* dictionary holding a dictionary STEM (it subscripts an int or a str).  d
\* is dict_attributes as the call leaves it, returned when ok.
RECURSIVE fill_def_values(_), fillSrc(_)
fill_def_values(dict_attributes) == fillSrc(adjDefaults(nounDefaults(dict_attributes)))

fillSrc(own) ==
  IF ~Has(own, K_SRC) THEN [ok |-> TRUE, line |-> 0, d |-> own]
  ELSE IF ~IsDict(own[K_SRC]) THEN [ok |-> FALSE, line |-> 231, d |-> own]
  ELSE IF ~Has(own[K_SRC][2], K_STEM) THEN [ok |-> FALSE, line |-> 231, d |-> own]
  ELSE IF ~IsDict(own[K_SRC][2][K_STEM]) THEN [ok |-> FALSE, line |-> 231, d |-> own]
  ELSE fillStem(own, fill_def_values(own[K_SRC][2][K_STEM][2]))

\* Line 264
dictFilled(filled) ==
  IF ~filled.ok
    THEN [ok |-> FALSE, line |-> filled.line, d |-> EmptyDict, stderr |-> <<>>]
    ELSE [ok |-> TRUE, line |-> 0, d |-> filled.d, stderr |-> <<>>]

\* Lines 263-264
dictNotSpecified(not_specified) ==
  IF ~not_specified.ok
    THEN [ok |-> FALSE, line |-> not_specified.line, d |-> EmptyDict, stderr |-> <<>>]
    ELSE dictFilled(fill_def_values(not_specified.d))

\* Lines 262-264 on code, the KRCode chosen at line 261.
dictOfKRCode(code) ==
  dictNotSpecified(node_dictionary(code.krNodes, code.kepzos, Len(code.krNodes) - 1))

\* A dictionary builder that reads the last KRCode analyze returned.
dictOfAnalysis_Last(a) ==
  IF ~a.ok THEN [ok |-> FALSE, line |-> a.line, d |-> EmptyDict, stderr |-> a.stderr]
  ELSE dictOfKRCode(a.krCodes[Len(a.krCodes)])

\* Line 261: the first KRCode of what analyze returned as a.
dictOfAnalysis(a) ==
  IF ~a.ok THEN [ok |-> FALSE, line |-> a.line, d |-> EmptyDict, stderr |-> a.stderr]
  ELSE dictOfKRCode(a.krCodes[1])

\* kr_to_dictionary(kr_code): the dictionary of the first constituent.
kr_to_dictionary(code) == dictOfAnalysis(analyze(code))

(***************************************************************************)
(* The codes decoded                                                       *)
(***************************************************************************)

\* The most parts after the stem of a code made of ParseParts.
MaxParts == 2
\* The most chain positions of a code made of DictParts.
MaxChain == 3
\* The most "+"-separated constituents of a compound code.
MaxConstituents == 2

\* Stems: plain, empty, with a "{...}" marker, and with the characters and
\* brace patterns the asserts of lines 115-126 reject.
Stems ==
  {
   <<>>, <<"x">>, <<"x", "{", "y", "}">>, <<"x", "{">>, <<"x", "}">>, <<"{", "}">>,
   <<"x", "}", "{", "y", "}">>, <<"x", "{", "y", "}", "z">>,
   <<"x", "{", "y", "{", "z", "}">>, <<"x", "<">>, <<"x", ">">>, <<"x", "[">>,
   <<"x", "]">>}

\* What follows the stem and its "/" in the codes that try every stem.
StemTails ==
  {
   <<"A">>, <<"A", "[", "B", "]", "/", "C">>}

\* Chain parts, well formed and not: no, one and several decorators, angle
\* brackets that do not balance, brackets that do not close, a character no
\* decorator may hold, text after a decorator, a second value, no head, a
\* bracket opened inside a bracket, a decorator that is no tree.
ParseParts ==
  {
   <<>>, <<"A">>, <<"a", "[", "B", "]">>, <<"[", "A", "]">>, <<"A", "[", "B", "]">>,
   <<"A", "[", "B", "]", "[", "C", "]">>,
   <<"A", "<", "B", ">", "[", "C", "<", "D", ">", "]">>, <<"A", "<", "B">>,
   <<"A", ">">>, <<"A", "]">>, <<"A", "[">>, <<"A", "[", "a", "]">>,
   <<"A", "[", "B", "]", "C">>, <<"A", "<", "B", ">", "C">>, <<"<", "A", ">">>,
   <<"A", "[", "<", "B", ">", "]">>, <<"A", "[", "[", "B", "]">>,
   <<"A", "[", "B", "<", "]">>, <<"A", ">", "B">>}

\* Well-formed chain parts naming the categories and attributes the
\* dictionary builder tests, and attribute names that meet its own keys.
DictParts ==
  {
   <<"N", "O", "U", "N">>,
   <<"N", "O", "U", "N", "<", "P", "L", "U", "R", ">", "[", "A", "D", "J", "]">>,
   <<"A", "D", "J", "[", "N", "O", "U", "N", "<", "X", ">", "]">>,
   <<"N", "O", "U", "N", "<", "C", "A", "S", "<", "A", "C", "C", ">", ">", "<", "P", "O", "S", "S", ">", "[", "V", "]", "[", "A", "D", "J", "]">>,
   <<"V", "<", "S", "R", "C", ">", "[", "N", "O", "U", "N", "]">>,
   <<"A", "D", "J", "<", "C", "A", "T", "<", "N", "O", "U", "N", ">", ">">>,
   <<"V", "<", "M", ">", "<", "M", "<", "X", ">", ">", "[", "A", "]">>,
   <<"N", "O", "U", "N", "<", "N", "U", "M", "<", "X", "<", "Y", ">", ">", ">", "<", "P", "L", "U", "R", ">">>}

\* The constituents compound codes are made of; the last two do not parse.
Constituents ==
  {
   <<"x", "/", "A">>, <<"y", "/", "N", "O", "U", "N">>,
   <<"x", "/", "A", "[", "B", "]", "/", "A", "D", "J">>, <<"/", "[", "A", "]">>,
   <<"x", "/", "A", "/", "B">>, <<"x", "{", "y", "}", "/", "A">>}

\* sep.join(ps) for the sequences ps of exactly k members of parts.
RECURSIVE Joined(_, _, _)
Joined(parts, sep, k) ==
  IF k = 0 THEN {<<>>}
  ELSE IF k = 1 THEN parts
  ELSE {a \o <<sep>> \o b : a \in Joined(parts, sep, k - 1), b \in parts}

StemCodes == {stem \o <<"/">> \o tail : stem \in Stems, tail \in StemTails}

ParseCodes ==
  {<<"x">>} \cup
  UNION {{<<"x", "/">> \o c : c \in Joined(ParseParts, "/", k)} : k \in 1..MaxParts}

DictCodes ==
  UNION {{<<"x", "/">> \o c : c \in Joined(DictParts, "/", k)} : k \in 1..MaxChain}

CompoundCodes == UNION {Joined(Constituents, "+", k) : k \in 2..MaxConstituents}

Codes == StemCodes \cup ParseCodes \cup DictCodes \cup CompoundCodes

(***************************************************************************)
(* The calls a client makes on one code                                    *)
(*                                                                         *)
(* kr_code is the code at hand; op is the function last called; krCodes    *)
(* and dictionary are the values it returned (empty when it raised), line  *)
(* what it raised, stderr what has been written to standard error.         *)
(***************************************************************************)
(* The corpus reader, ConllReader                                          *)
(*                                                                         *)
(* callbacks and state are the reader's fields; reading says that read is  *)
(* inside its with block, and linesRead counts the lines of in_file it has *)
(* got so far.  events lists what the reader has notified of since the     *)
(* last fileStart, calls the callback methods called for it.               *)
(***************************************************************************)
VARIABLES callbacks, state, reading, linesRead, events, calls

readerVars == <<callbacks, state, reading, linesRead, events, calls>>

\* Line 158
NONE == 0
PAGE == 1
FIELD == 2
SENTENCE == 3

\* No reader has been constructed.
ReaderIdle ==
  /\ callbacks = <<>>
  /\ state = NONE
  /\ reading = FALSE
  /\ linesRead = 0
  /\ events = <<>>
  /\ calls = <<>>

(***************************************************************************)
(* The command line driver, main                                           *)
(*                                                                         *)
(* stdin holds the lines not yet read, each with its "\n"; tokens the      *)
(* tokens of the line at hand not yet analyzed; analyzed the texts analyze *)
(* has returned for; pc where main stands: "idle" (not called), "lines"    *)
(* (at the for of line 270 or 278), "tokens" (at the for of line 274),     *)
(* "raised" (an exception left main), "done" (main returned).              *)
(***************************************************************************)
VARIABLES manyWordsPerLine, stdin, tokens, inputWord, analyzed, pc

mainVars == <<manyWordsPerLine, stdin, tokens, inputWord, analyzed, pc>>

\* A local variable no assignment has reached yet, and one bound to s.
Unbound == [bound |-> FALSE, s |-> <<>>]
Bound(s) == [bound |-> TRUE, s |-> s]

\* main has not been called.
MainIdle ==
  /\ manyWordsPerLine = TRUE
  /\ stdin = <<>>
  /\ tokens = <<>>
  /\ inputWord = Unbound
  /\ analyzed = <<>>
  /\ pc = "idle"

(***************************************************************************)
(* One call of analyzeKR, descent taken call by call                       *)
(*                                                                         *)
(* fragment is the code analyzeKR was given and offset the pos of the call *)
(* of descent about to run.  leafPath holds the leaves of the calls of     *)
(* descent waiting at line 68, outermost first, and last the leaf of the   *)
(* call about to run; the node of leafPath[i + 1] is the child leafPath[i] *)
(* appended at line 67 and kept here until its call returns.  descentPc is *)
(* "idle" (not called), "descent" (a call of descent is about to run),     *)
(* "returned" (descent is back in analyzeKR, line 97), "raised" (an        *)
(* exception is on its way to the except of line 104), "done" (analyzeKR   *)
(* returned root) or "failed" (analyzeKR raised).                          *)
(***************************************************************************)
VARIABLES fragment, offset, leafPath, descentPc

descentVars == <<fragment, offset, leafPath, descentPc>>

\* analyzeKR has not been called.
DescentIdle ==
  /\ fragment = <<>>
  /\ offset = 0
  /\ leafPath = <<>>
  /\ descentPc = "idle"

(***************************************************************************)
VARIABLES kr_code, op, krCodes, dictionary, line, stderr

vars == <<kr_code, op, krCodes, dictionary, line, stderr>>

Init ==
  /\ kr_code \in Codes
  /\ op = "none"
  /\ krCodes = <<>>
  /\ dictionary = EmptyDict
  /\ line = 0
  /\ stderr = <<>>
  /\ MainIdle
  /\ ReaderIdle
  /\ DescentIdle

\* The call returned the KRCode list r.krCodes, or raised r.line.
ReturnKRCodes(r) ==
  /\ krCodes' = r.krCodes
  /\ line' = r.line
  /\ stderr' = stderr \o r.stderr
  /\ UNCHANGED <<kr_code, dictionary, mainVars, readerVars, descentVars>>

\* The call returned the dictionary r.d, or raised r.line.
ReturnDictionary(r) ==
  /\ dictionary' = IF r.ok THEN r.d ELSE EmptyDict
  /\ line' = r.line
  /\ UNCHANGED <<kr_code, krCodes, mainVars, readerVars, descentVars>>

\* What analyzeConstituent returned, as a list of one KRCode.
AsList(r) ==
  [krCodes |-> IF r.ok THEN <<r.krCode>> ELSE <<>>, line |-> r.line,
   stderr |-> r.stderr]

\* analyzeConstituent(kr_code)
CallAnalyzeConstituent ==
  /\ op = "none"
  /\ op' = "analyzeConstituent"
  /\ ReturnKRCodes(AsList(analyzeConstituent(kr_code)))

\* analyze(kr_code)
CallAnalyze ==
  /\ op = "none"
  /\ op' = "analyze"
  /\ ReturnKRCodes(analyze(kr_code))

\* node_dictionary(code.krNodes, code.kepzos, len(code.krNodes)-1) on the
\* first KRCode analyze returned.
CallNodeDictionary ==
  /\ op = "analyze"
  /\ line = 0
  /\ op' = "node_dictionary"
  /\ ReturnDictionary(node_dictionary(krCodes[1].krNodes, krCodes[1].kepzos,
                                      Len(krCodes[1].krNodes) - 1))
  /\ UNCHANGED stderr

\* fill_def_values(dictionary) on a dictionary node_dictionary or
\* fill_def_values returned.
CallFillDefValues ==
  /\ op \in {"node_dictionary", "fill_def_values"}
  /\ line = 0
  /\ op' = "fill_def_values"
  /\ ReturnDictionary(fill_def_values(dictionary))
  /\ UNCHANGED stderr

\* What kr_to_dictionary wrote to stderr.
WroteStderr(r) == stderr' = stderr \o r.stderr

\* kr_to_dictionary(kr_code)
ReturnKrToDictionary(r) == ReturnDictionary(r) /\ WroteStderr(r)

CallKrToDictionary ==
  /\ op = "none"
  /\ op' = "kr_to_dictionary"
  /\ ReturnKrToDictionary(kr_to_dictionary(kr_code))

Next ==
  \/ CallAnalyzeConstituent
  \/ CallAnalyze
  \/ CallNodeDictionary
  \/ CallFillDefValues
  \/ CallKrToDictionary

Spec == Init /\ [][Next]_vars

(***************************************************************************)
(* main: the lines of standard input, token by token                       *)
(***************************************************************************)

\* Python's s.strip(chars): the characters of cs taken off both ends.
RECURSIVE LStrip(_, _), RStrip(_, _)
LStrip(s, cs) == IF s # <<>> /\ s[1] \in cs THEN LStrip(Tail(s), cs) ELSE s
RStrip(s, cs) ==
  IF s # <<>> /\ s[Len(s)] \in cs THEN RStrip(SubSeq(s, 1, Len(s) - 1), cs) ELSE s
Strip(s, cs) == RStrip(LStrip(s, cs), cs)

\* Python's s.startswith(prefix, start)
StartsWith(s, prefix, start) ==
  /\ start + Len(prefix) <= Len(s)
  /\ SubSeq(s, start + 1, start + Len(prefix)) = prefix

\* Line 287: the text cerr writes for the line t read for the word w.
BugText(t, w) == t \o <<" ", "I", "N", " ", "W", "O", "R", "D", ":", " ">> \o w

\* Lines 279-287, the branch of one analysis per line, on the line t with r
\* being what analyze(t) does: what it leaves in inputWord, what it raises,
\* what it adds to stderr and to the texts analyzed.  The handler of line 286
\* catches everything; line 287 itself raises when no "> " line has bound
\* inputWord.
oneWordStep(t, word, r) ==
  IF StartsWith(t, <<">", " ">>, 0)
    THEN [inputWord |-> Bound(Slice(t, 2, Len(t))), line |-> 0, stderr |-> <<>>,
          analyzed |-> <<>>]
  ELSE IF r.ok
    THEN [inputWord |-> word, line |-> 0, stderr |-> r.stderr, analyzed |-> <<t>>]
  ELSE IF ~word.bound
    THEN [inputWord |-> word, line |-> 287, stderr |-> r.stderr, analyzed |-> <<>>]
  ELSE [inputWord |-> word, line |-> 0,
        stderr |-> Append(r.stderr, [msg |-> "BUG: ", text |-> BugText(t, word.s)]),
        analyzed |-> <<>>]

\* Lines 271-273: the tokens of a line; a line of one empty token is skipped.
ManyWordsLine(toks) ==
  /\ tokens' = IF toks = <<<<>>>> THEN <<>> ELSE toks
  /\ pc' = IF toks = <<<<>>>> THEN "lines" ELSE "tokens"
  /\ UNCHANGED <<inputWord, analyzed, line, stderr>>

\* Lines 279-287 applied to the state.
OneWordLine(step) ==
  /\ inputWord' = step.inputWord
  /\ line' = step.line
  /\ stderr' = stderr \o step.stderr
  /\ analyzed' = analyzed \o step.analyzed
  /\ pc' = IF step.line # 0 THEN "raised" ELSE "lines"
  /\ UNCHANGED tokens

\* The line l, without its newline, as the mode at hand reads it.
ReadStdinLine(t) ==
  IF manyWordsPerLine THEN ManyWordsLine(Split(t, " "))
  ELSE OneWordLine(oneWordStep(t, inputWord, analyze(t)))

\* One turn of the loop of line 270 (or 278): the next line of stdin.
MainLine ==
  /\ pc = "lines"
  /\ stdin # <<>>
  /\ stdin' = Tail(stdin)
  /\ ReadStdinLine(Strip(Head(stdin), {"\n"}))
  /\ UNCHANGED <<manyWordsPerLine, kr_code, op, krCodes, dictionary, readerVars, descentVars>>

\* A loop over the tokens that logs a token that fails and goes on.
TokenAnalyzed_Logged(r) ==
  /\ stderr' = stderr \o r.stderr \o
                (IF r.ok THEN <<>> ELSE <<[msg |-> "BUG: ", text |-> Head(tokens)]>>)
  /\ line' = 0
  /\ pc' = IF Len(tokens) = 1 THEN "lines" ELSE "tokens"
  /\ tokens' = Tail(tokens)
  /\ analyzed' = IF r.ok THEN Append(analyzed, Head(tokens)) ELSE analyzed

\* Line 275 with r being what analyze(token) does: no handler is around the
\* call, so what it raises leaves main.
TokenAnalyzed(r) ==
  /\ stderr' = stderr \o r.stderr
  /\ line' = r.line
  /\ pc' = IF ~r.ok THEN "raised" ELSE IF Len(tokens) = 1 THEN "lines" ELSE "tokens"
  /\ tokens' = IF r.ok THEN Tail(tokens) ELSE tokens
  /\ analyzed' = IF r.ok THEN Append(analyzed, Head(tokens)) ELSE analyzed

\* One turn of the loop of line 274: analyze(token).
MainToken ==
  /\ pc = "tokens"
  /\ TokenAnalyzed(analyze(Head(tokens)))
  /\ UNCHANGED <<manyWordsPerLine, stdin, inputWord, kr_code, op, krCodes, dictionary,
                 readerVars, descentVars>>

\* Standard input is at its end: main returns.
MainReturn ==
  /\ pc = "lines"
  /\ stdin = <<>>
  /\ pc' = "done"
  /\ UNCHANGED <<manyWordsPerLine, stdin, tokens, inputWord, analyzed, line, stderr,
                 kr_code, op, krCodes, dictionary, readerVars, descentVars>>

\* The most lines on standard input.
MaxLines == 2

\* Lines of standard input: blank, one token, two tokens, a token that does
\* not decode first or last, two spaces between tokens, a "> " word line.
StdinLines ==
  {
   <<"\n">>,
   <<"x", "/", "A", "\n">>,
   <<"x", "/", "A", " ", "y", "/", "N", "O", "U", "N", "\n">>,
   <<"x", "/", "A", "/", "B", " ", "y", "/", "A", "\n">>,
   <<"y", "/", "A", " ", "x", "/", "A", "/", "B", "\n">>,
   <<"x", "/", "A", " ", " ", "y", "/", "A", "\n">>,
   <<">", " ", "w", "\n">>}

\* The line without the newline that ends it.
Unterminated(l) == SubSeq(l, 1, Len(l) - 1)

\* The sequences of exactly k lines.
RECURSIVE LineSeqs(_)
LineSeqs(k) ==
  IF k = 0 THEN {<<>>}
  ELSE {Append(s, l) : s \in LineSeqs(k - 1), l \in StdinLines}

\* Standard input: lines that end with a newline, but for the last one,
\* which may lack it when it is not blank.
Stdins ==
  LET whole == UNION {LineSeqs(k) : k \in 0..MaxLines}
  IN  whole \cup
      {[s EXCEPT ![Len(s)] = Unterminated(s[Len(s)])] :
         s \in {w \in whole : w # <<>> /\ Len(w[Len(w)]) > 1}}

\* main is called: line 267 has set the mode.
MainInit ==
  /\ kr_code = <<>>
  /\ op = "none"
  /\ krCodes = <<>>
  /\ dictionary = EmptyDict
  /\ line = 0
  /\ stderr = <<>>
  /\ manyWordsPerLine = TRUE
  /\ stdin \in Stdins
  /\ tokens = <<>>
  /\ inputWord = Unbound
  /\ analyzed = <<>>
  /\ pc = "lines"
  /\ ReaderIdle
  /\ DescentIdle

MainNext ==
  \/ MainLine
  \/ MainToken
  \/ MainReturn

MainSpec == MainInit /\ [][MainNext]_<<vars, mainVars>>

(***************************************************************************)
(* ConllReader: construction, registration and read, line by line          *)
(*                                                                         *)
(* An event is a notification with its argument, a list of strings (the    *)
(* title or the field name alone, the templates, the columns of a word);   *)
(* a call is one callback method called for an event.  An IndexError is    *)
(* the number of the line that subscripts.                                 *)
(***************************************************************************)

META_HEAD == <<"%", "%", "#">>
PAGE_LABEL == <<"P", "A", "G", "E">>
FIELD_LABEL == <<"F", "i", "e", "l", "d">>
TEMPLATE_LABEL == <<"T", "e", "m", "p", "l", "a", "t", "e", "s">>
REDIRECT_LABEL == <<"R", "e", "d", "i", "r", "e", "c", "t">>
META_LEN == Len(META_HEAD)

\* The characters str.strip() takes off.
Whitespace == {" ", "\t", "\n", "\r"}

\* What stands for None among the arguments of addCallback.
None == "None"

Event(name, arg) == [name |-> name, arg |-> arg]

\* Lines 209-214: the notification for the state that is left.
endEvent(s) ==
  IF s = SENTENCE THEN <<Event("sentenceEnd", <<>>)>>
  ELSE IF s = FIELD THEN <<Event("fieldEnd", <<>>)>>
  ELSE IF s = PAGE THEN <<Event("documentEnd", <<>>)>>
  ELSE <<>>

\* A closing loop that goes from the outermost state to the innermost.
RECURSIVE endState_OuterFirst(_, _, _)
endState_OuterFirst(s, what, fired) ==
  IF s >= what THEN endState_OuterFirst(s - 1, what, endEvent(s) \o fired)
  ELSE [state |-> s, events |-> fired, line |-> 0]

\* __endState(what) from the state s, fired being the events so far.
RECURSIVE endState(_, _, _)
endState(s, what, fired) ==
  IF s >= what THEN endState(s - 1, what, fired \o endEvent(s))
  ELSE [state |-> s, events |-> fired, line |-> 0]

\* Lines 181-182 after __endState(PAGE): cols is line.split("\t").
pageLine(ended, cols) ==
  IF Len(cols) < 2 THEN [ended EXCEPT !.line = 181]
  ELSE [state |-> PAGE, line |-> 0,
        events |-> Append(ended.events, Event("documentStart", <<cols[2]>>))]

\* Lines 185-186 after __endState(FIELD).
fieldLine(ended, cols) ==
  IF Len(cols) < 2 THEN [ended EXCEPT !.line = 185]
  ELSE [state |-> FIELD, line |-> 0,
        events |-> Append(ended.events, Event("fieldStart", <<cols[2]>>))]

\* Line 188
templatesLine(s, cols) ==
  IF Len(cols) < 2 THEN [state |-> s, events |-> <<>>, line |-> 188]
  ELSE [state |-> s, line |-> 0,
        events |-> <<Event("templates", Split(cols[2], ","))>>]

\* Lines 179-190: a line that starts with META_HEAD.
metaLine(s, ln) ==
  IF StartsWith(ln, PAGE_LABEL, META_LEN)
    THEN pageLine(endState(s, PAGE, <<>>), Split(ln, "\t"))
  ELSE IF StartsWith(ln, FIELD_LABEL, META_LEN)
    THEN fieldLine(endState(s, FIELD, <<>>), Split(ln, "\t"))
  ELSE IF StartsWith(ln, TEMPLATE_LABEL, META_LEN)
    THEN templatesLine(s, Split(ln, "\t"))
  ELSE IF StartsWith(ln, REDIRECT_LABEL, META_LEN)
    THEN [state |-> s, events |-> <<Event("redirect", <<>>)>>, line |-> 0]
  ELSE [state |-> s, events |-> <<>>, line |-> 0]

\* A line of data that is passed on as a word in every state.
dataLine_Always(s, ln) ==
  IF s = FIELD
    THEN [state |-> SENTENCE, line |-> 0,
          events |-> <<Event("sentenceStart", <<>>), Event("word", Split(ln, "\t"))>>]
  ELSE [state |-> s, events |-> <<Event("word", Split(ln, "\t"))>>, line |-> 0]

\* Lines 194-198: a line of data.
dataLine(s, ln) ==
  IF s = FIELD
    THEN [state |-> SENTENCE, line |-> 0,
          events |-> <<Event("sentenceStart", <<>>), Event("word", Split(ln, "\t"))>>]
  ELSE IF s = SENTENCE
    THEN [state |-> s, events |-> <<Event("word", Split(ln, "\t"))>>, line |-> 0]
  ELSE [state |-> s, events |-> <<>>, line |-> 0]

\* Lines 178-198 on ln, the stripped line: the state it leaves, the events
\* it fires and what it raises.
readLine(s, ln) ==
  IF StartsWith(ln, META_HEAD, 0) THEN metaLine(s, ln)
  ELSE IF Len(ln) = 0 THEN endState(s, SENTENCE, <<>>)
  ELSE dataLine(s, ln)

\* The for loops of lines 236-293: one call per member of callbacks.
notify(cbs, e) ==
  [k \in 1..Len(cbs) |-> [callback |-> cbs[k], name |-> e.name, arg |-> e.arg]]

\* The calls for the events from number k on.
RECURSIVE notifyAll(_, _, _)
notifyAll(cbs, evs, k) ==
  IF k > Len(evs) THEN <<>> ELSE notify(cbs, evs[k]) \o notifyAll(cbs, evs, k + 1)

\* The members of a list.
Members(list) == {list[k] : k \in 1..Len(list)}

\* Lines 222-223
addCallback(cbs, callback) ==
  IF callback # None /\ callback \notin Members(cbs) THEN Append(cbs, callback) ELSE cbs

\* list.remove: the list without the first member equal to x.
RECURSIVE Remove(_, _)
Remove(list, x) ==
  IF list = <<>> THEN <<>>
  ELSE IF Head(list) = x THEN Tail(list)
  ELSE <<Head(list)>> \o Remove(Tail(list), x)

\* Lines 227-228
removeCallback(cbs, callback) ==
  IF callback \in Members(cbs) THEN Remove(cbs, callback) ELSE cbs

\* The reader notifies of the events evs.
Notified(evs) ==
  /\ events' = events \o evs
  /\ calls' = calls \o notifyAll(callbacks, evs, 1)

\* The callback objects at hand.
Callbacks == {"a", "b"}

\* reader.addCallback(callback), between two reads.
AddCallback ==
  /\ ~reading
  /\ \E callback \in Callbacks \cup {None} :
       callbacks' = addCallback(callbacks, callback)
  /\ UNCHANGED <<state, reading, linesRead, events, calls, vars, mainVars, descentVars>>

\* reader.removeCallback(callback), between two reads.
RemoveCallback ==
  /\ ~reading
  /\ \E callback \in Callbacks \cup {None} :
       callbacks' = removeCallback(callbacks, callback)
  /\ UNCHANGED <<state, reading, linesRead, events, calls, vars, mainVars, descentVars>>

\* The name of the file read.
FileName == <<"f">>

\* The most lines of a file and the most callbacks handed to the constructor.
MaxFileLines == 3
MaxCallbacks == 2

\* The lines in_file may hold: a page, a field, templates, a redirect, a blank
\* line, a word, and the page, field and templates lines with nothing after
\* the label (strip takes a tab at the end away).
FileLines ==
  {
   <<"%", "%", "#", "P", "A", "G", "E", "\t", "T", "\n">>,
   <<"%", "%", "#", "F", "i", "e", "l", "d", "\t", "f", "\n">>,
   <<"%", "%", "#", "T", "e", "m", "p", "l", "a", "t", "e", "s", "\t", "a", ",", "b", "\n">>,
   <<"%", "%", "#", "R", "e", "d", "i", "r", "e", "c", "t", "\n">>,
   <<"\n">>,
   <<"w", "\t", "N", "\n">>,
   <<"%", "%", "#", "P", "A", "G", "E", "\t", "\n">>,
   <<"%", "%", "#", "F", "i", "e", "l", "d", "\n">>,
   <<"%", "%", "#", "T", "e", "m", "p", "l", "a", "t", "e", "s", "\n">>}

\* The sequences of exactly k members of S.
RECURSIVE SeqsOf(_, _)
SeqsOf(S, k) ==
  IF k = 0 THEN {<<>>} ELSE {Append(s, x) : s \in SeqsOf(S, k - 1), x \in S}

\* Lines 174-175: read opens the file and notifies of fileStart.
ReadOpen ==
  /\ ~reading
  /\ reading' = TRUE
  /\ linesRead' = 0
  /\ events' = <<Event("fileStart", <<FileName>>)>>
  /\ calls' = notify(callbacks, Event("fileStart", <<FileName>>))
  /\ line' = 0
  /\ UNCHANGED <<callbacks, state, kr_code, op, krCodes, dictionary, stderr, mainVars, descentVars>>

\* What a line of the file did: an IndexError leaves read.
LineRead(r) ==
  /\ state' = r.state
  /\ Notified(r.events)
  /\ line' = r.line
  /\ reading' = (r.line = 0)
  /\ linesRead' = linesRead + 1

\* One turn of the loop of line 176: in_file has one more line.
ReadLine ==
  /\ reading
  /\ linesRead < MaxFileLines
  /\ \E ln \in FileLines : LineRead(readLine(state, Strip(ln, Whitespace)))
  /\ UNCHANGED <<callbacks, kr_code, op, krCodes, dictionary, stderr, mainVars, descentVars>>

\* Lines 199-200 with ended being what __endState(PAGE) did.
FileRead(ended) ==
  /\ state' = ended.state
  /\ Notified(Append(ended.events, Event("fileEnd", <<>>)))

\* in_file is at its end: read closes what is open and returns.
ReadReturn ==
  /\ reading
  /\ FileRead(endState(state, PAGE, <<>>))
  /\ reading' = FALSE
  /\ UNCHANGED <<callbacks, linesRead, vars, mainVars, descentVars>>

\* ConllReader(callbacks) has been constructed (lines 166-167).
ReaderInit ==
  /\ kr_code = <<>>
  /\ op = "none"
  /\ krCodes = <<>>
  /\ dictionary = EmptyDict
  /\ line = 0
  /\ stderr = <<>>
  /\ MainIdle
  /\ DescentIdle
  /\ callbacks \in UNION {SeqsOf(Callbacks, k) : k \in 0..MaxCallbacks}
  /\ state = NONE
  /\ reading = FALSE
  /\ linesRead = 0
  /\ events = <<>>
  /\ calls = <<>>

ReaderNext ==
  \/ AddCallback
  \/ RemoveCallback
  \/ ReadOpen
  \/ ReadLine
  \/ ReadReturn

ReaderSpec == ReaderInit /\ [][ReaderNext]_<<vars, readerVars>>

(***************************************************************************)
(* analyzeKR: descent, one call at a time                                  *)
(***************************************************************************)

\* What one call of descent leaves: where control is next, the pos handed
\* on, the leaves still open, and the line that raised (0 for none).
Descended(where, pos, path, raised) ==
  [pc |-> where, pos |-> pos, path |-> path, line |-> raised]

\* The leaves open once the innermost call has returned: line 68 is back in
\* the caller, whose leaf holds the child since line 67.
Closed(path) ==
  SubSeq(path, 1, Len(path) - 2) \o
    <<[path[Len(path) - 1] EXCEPT !.children = Append(@, path[Len(path)])]>>

\* "return pos": to analyzeKR from the outermost call; from a call made at
\* line 68 to its caller, which calls descent(code, pos, leaf) at line 84,
\* whose own return then passes up unchanged.
descentReturn(pos, path) ==
  IF Len(path) = 1 THEN Descended("returned", pos, path, 0)
  ELSE Descended("descent", pos, Closed(path), 0)

\* Lines 63-68: "<" opens a child of a leaf that has its value.
descentOpen(pos, path) ==
  IF path[Len(path)].value = <<>> THEN Descended("raised", pos, path, 64)
  ELSE Descended("descent", pos + 1, Append(path, Node), 0)

\* A call that gives a leaf its value whether or not it has one.
descentText_Overwrite(code, pos, path, nextPos) ==
  Descended("descent", nextPos,
            [path EXCEPT ![Len(path)].value = Slice(code, pos, nextPos)], 0)

\* Lines 72-84: the text up to the next "<" or ">" becomes the value of a
\* leaf that has none.
descentText(code, pos, path, nextPos) ==
  IF path[Len(path)].value # <<>> THEN Descended("raised", pos, path, 81)
  ELSE Descended("descent", nextPos,
                 [path EXCEPT ![Len(path)].value = Slice(code, pos, nextPos)], 0)

\* One call of descent(code, pos, leaf), leaf being the last of path, up to
\* the call it makes (lines 68, 84) or its return.
descentStep(code, pos, path) ==
  IF pos = Len(code) THEN descentReturn(pos, path)
  ELSE IF code[pos + 1] = "<" THEN descentOpen(pos, path)
  ELSE IF code[pos + 1] = ">" THEN descentReturn(pos + 1, path)
  ELSE descentText(code, pos, path, nextPosOf(code, pos))

\* The state after the call d.
DescentTo(d) ==
  /\ descentPc' = d.pc
  /\ offset' = d.pos
  /\ leafPath' = d.path
  /\ line' = d.line

\* One call of descent.
Descent ==
  /\ descentPc = "descent"
  /\ DescentTo(descentStep(fragment, offset, leafPath))
  /\ UNCHANGED <<fragment, kr_code, op, krCodes, dictionary, stderr, mainVars, readerVars>>

\* Line 98: the assert on the pos descent returned; then line 107.
AnalyzeKRCheck ==
  /\ descentPc = "returned"
  /\ descentPc' = IF offset = Len(fragment) THEN "done" ELSE "raised"
  /\ line' = IF offset = Len(fragment) THEN 0 ELSE 98
  /\ UNCHANGED <<fragment, offset, leafPath, kr_code, op, krCodes, dictionary, stderr,
                 mainVars, readerVars>>

\* Lines 104-106: the except clause writes the code and raises again.
AnalyzeKRExcept ==
  /\ descentPc = "raised"
  /\ stderr' = Append(stderr, [msg |-> "Invalid KR: ", text |-> fragment])
  /\ descentPc' = "failed"
  /\ UNCHANGED <<fragment, offset, leafPath, kr_code, op, krCodes, dictionary, line,
                 mainVars, readerVars>>

\* The longest code fragment analyzeKR is called on.
MaxFragment == 5

\* The characters of the fragments: two of a name, and the angle brackets.
FragmentChars == {"A", "B", "<", ">"}

\* Every text of at most MaxFragment of those characters.
Fragments == UNION {SeqsOf(FragmentChars, k) : k \in 0..MaxFragment}

\* analyzeKR(fragment) has made its root and calls descent(code, 0, root)
\* (lines 96-97).
DescentInit ==
  /\ kr_code = <<>>
  /\ op = "none"
  /\ krCodes = <<>>
  /\ dictionary = EmptyDict
  /\ line = 0
  /\ stderr = <<>>
  /\ MainIdle
  /\ ReaderIdle
  /\ fragment \in Fragments
  /\ offset = 0
  /\ leafPath = <<Node>>
  /\ descentPc = "descent"

DescentNext ==
  \/ Descent
  \/ AnalyzeKRCheck
  \/ AnalyzeKRExcept

DescentSpec == DescentInit /\ [][DescentNext]_<<vars, descentVars>>

\* The interpreter goes on running a call that has begun: no step of
\* analyzeKR waits for ever.
DescentLiveSpec == DescentSpec /\ WF_<<vars, descentVars>>(DescentNext)

(***************************************************************************)
(* What the properties below speak of                                      *)
(***************************************************************************)

\* The parts of kr_code after its stem: tkr[1:] of analyzeConstituent.
PartsOf(w) == Tail(Split(w, "/"))

\* The calls that return KRCodes.
Parsed == op \in {"analyzeConstituent", "analyze"} /\ line = 0

\* The constituents of the code as the call at hand sees them.
ConstituentsOf(w) == IF op = "analyze" THEN Split(w, "+") ELSE <<w>>

\* C1: Round trip.  Every KRCode analyzeConstituent returns renders, with
\* str(), to exactly the token it was given: one token, kr_code, for a call
\* of analyzeConstituent, and the k-th "+"-separated constituent of kr_code
\* for the k-th KRCode analyze returns.  So no token is accepted whose
\* rendering differs from it.
C1_RoundTrip ==
  Parsed =>
    /\ Len(krCodes) = Len(ConstituentsOf(kr_code))
    /\ \A k \in 1..Len(krCodes) :
         /\ KRCodeStr(krCodes[k]).ok
         /\ KRCodeStr(krCodes[k]).s = ConstituentsOf(kr_code)[k]

\* A token with two chain positions, a decorator and a qualifier is accepted.
C1_Witness ==
  /\ op = "analyzeConstituent"
  /\ line = 0
  /\ Len(krCodes[1].krNodes) = 2
  /\ Len(krCodes[1].kepzos) = 2
  /\ krCodes[1].krNodes[1].children # <<>>

\* C2: Chain invariant.  In every KRCode returned there are as many decorator
\* groups as chain nodes or one fewer; there is one chain node per part of
\* the token; every position but the last has a group; and the group stored
\* at an index is not empty and is the one scanned from the part at that same
\* index, so kepzos[i] belongs to krNodes[i].
C2_ChainInvariant ==
  Parsed =>
    \A k \in 1..Len(krCodes) :
      LET code == krCodes[k]
          parts == PartsOf(ConstituentsOf(kr_code)[k])
      IN  /\ Len(code.krNodes) - Len(code.kepzos) \in {0, 1}
          /\ Len(code.krNodes) = Len(parts)
          /\ \A j \in 1..(Len(code.krNodes) - 1) : j <= Len(code.kepzos)
          /\ \A j \in 1..Len(code.kepzos) :
               /\ code.kepzos[j] # <<>>
               /\ code.kepzos[j] = scanKepzos(parts[j]).kepzoGroup

\* A KRCode of three positions is returned, the last one without a group.
C2_Witness ==
  /\ op = "analyzeConstituent"
  /\ line = 0
  /\ Len(krCodes[1].krNodes) = 3
  /\ Len(krCodes[1].kepzos) = 2

\* The main KR part of a chain part is empty: the part is empty or its "["
\* is its first character.
EmptyMain(part) == part = <<>> \/ part[1] = "["

\* The token with the category "A" put before the "[" that opens its first
\* chain part.
WithCategory(w) ==
  Slice(w, 0, Find(w, "/") + 1) \o <<"A">> \o Slice(w, Find(w, "/") + 1, Len(w))

\* C3: First-position exemption.  A token with an empty main category at any
\* position >= 1 makes analyzeConstituent fail.  At position 0 an empty main
\* category before "[" costs nothing: the token is accepted exactly when the
\* same token with a category written there is accepted.
C3_FirstPositionExemption ==
  op = "analyzeConstituent" =>
    LET parts == PartsOf(kr_code)
    IN  /\ (\E j \in 2..Len(parts) : EmptyMain(parts[j])) => line # 0
        /\ (Len(parts) >= 1 /\ parts[1] # <<>> /\ parts[1][1] = "[") =>
             ((line = 0) <=> analyzeConstituent(WithCategory(kr_code)).ok)

\* A token whose first part has no main category is accepted, and its first
\* chain node has the empty value.
C3_Witness ==
  /\ op = "analyzeConstituent"
  /\ line = 0
  /\ EmptyMain(PartsOf(kr_code)[1])
  /\ Len(krCodes[1].krNodes) = 2
  /\ krCodes[1].krNodes[1].value = <<>>

\* The parts other than the last that hold no "[" (0-based part numbers).
Undecorated(parts) ==
  {i \in 0..(Len(parts) - 2) : Find(parts[i + 1], "[") = -1}

\* The least member of a non-empty set of numbers.
Least(S) == CHOOSE i \in S : \A j \in S : i <= j

\* The stem and the parts before part number m raise nothing.
ReachesPart(w, m) ==
  /\ realStemOf(Split(w, "/")[1]).line = 0
  /\ partLoop(SubSeq(PartsOf(w), 1, m) \o <<<<"A">>>>, 0, KRCode).line = 0

\* C4: Missing derivation marker.  When a part other than the last holds no
\* "[", analyzeConstituent fails and returns no KRCode.  The assert of line
\* 139 is never raised without the MISSING KEPZO line for that part having
\* been written just before; and it is the failure raised whenever the stem
\* and the parts before the first such part are well formed.
C4_MissingKepzo ==
  (op = "analyzeConstituent" /\ Undecorated(PartsOf(kr_code)) # {}) =>
    LET m == Least(Undecorated(PartsOf(kr_code)))
    IN  /\ line # 0
        /\ krCodes = <<>>
        /\ line = 139 =>
             stderr = <<[msg |-> "MISSING KEPZO: ", text |-> PartsOf(kr_code)[m + 1]]>>
        /\ ReachesPart(kr_code, m) => line = 139

\* The second of three parts lacks its decorator: the first part is parsed,
\* the diagnostic names the second and line 139 raises.
C4_Witness ==
  /\ op = "analyzeConstituent"
  /\ line = 139
  /\ Find(kr_code, "+") = -1
  /\ Len(PartsOf(kr_code)) = 3
  /\ Least(Undecorated(PartsOf(kr_code))) = 1
  /\ stderr = <<[msg |-> "MISSING KEPZO: ", text |-> PartsOf(kr_code)[2]]>>

\* The stem of the token ends with "}" and holds a "{".
HasMarker(w) ==
  LET stem == Split(w, "/")[1]
  IN  Len(stem) > 0 /\ stem[Len(stem)] = "}" /\ Find(stem, "{") # -1

\* The token without the "{...}" that ends its stem.
WithoutMarker(w) ==
  Slice(w, 0, Find(w, "{")) \o Slice(w, OrEnd(Find(w, "/"), Len(w)), Len(w))

\* C5: Ambiguity marker.  A token whose stem ends with "}" and holds a
\* matching "{", and which is well formed without that marker, is decoded
\* into a KRCode whose stem is the text before "{".
C5_AmbiguityMarker ==
  (/\ op = "analyzeConstituent"
   /\ HasMarker(kr_code)
   /\ analyzeConstituent(WithoutMarker(kr_code)).ok) =>
    /\ line = 0
    /\ krCodes = <<analyzeConstituent(WithoutMarker(kr_code)).krCode>>

\* The first KRCode analyze returns for the code.
FirstKRCode(w) == analyzeConstituent(Split(w, "+")[1]).krCode

\* The number of SRC.STEM levels below a dictionary.
RECURSIVE StemDepth(_)
StemDepth(d) ==
  IF Has(d, K_SRC) /\ IsDict(d[K_SRC]) /\ Has(d[K_SRC][2], K_STEM)
    THEN 1 + StemDepth(d[K_SRC][2][K_STEM][2])
    ELSE 0

\* The dictionary node_dictionary builds for a position.
BuiltAt(nodes, kepzos, i) == node_dictionary(nodes, kepzos, i).d

\* The dictionary of a position with its defaults filled in.
FilledAt(nodes, kepzos, i) == fill_def_values(BuiltAt(nodes, kepzos, i)).d

\* d is the dictionary of position i (0-based) of the chain: below position
\* 0 there is no SRC, and at i > 0 SRC holds the derivation read from the
\* first decorator of group i-1 and, as STEM, the dictionary of position i-1
\* (with its defaults when filled).
RECURSIVE ChainDict(_, _, _, _)
ChainDict(code, i, d, filled) ==
  IF i = 0 THEN ~Has(d, K_SRC)
  ELSE /\ Has(d, K_SRC)
       /\ IsDict(d[K_SRC])
       /\ DOMAIN d[K_SRC][2] = {K_DERIV, K_STEM}
       /\ LET kepzo == code.kepzos[i][1]
              deriv == d[K_SRC][2][K_DERIV][2]
              stem == d[K_SRC][2][K_STEM][2]
          IN  /\ deriv[K_CAT] = PyStr(kepzo.value)
              /\ Has(deriv, K_TYPE) <=> kepzo.children # <<>>
              /\ Has(deriv, K_TYPE) => deriv[K_TYPE] = PyStr(kepzo.children[1].value)
              /\ DOMAIN deriv \subseteq {K_CAT, K_TYPE}
              /\ stem = IF filled THEN FilledAt(code.krNodes, code.kepzos, i - 1)
                                   ELSE BuiltAt(code.krNodes, code.kepzos, i - 1)
              /\ ChainDict(code, i - 1, stem, filled)

\* C6: Derivation chain reconstruction.  For a code whose first constituent
\* has n >= 1 chain positions, node_dictionary and kr_to_dictionary return the
\* dictionary of position n-1; in it every position i > 0 has SRC.DERIV.CAT
\* equal to the value of the first decorator of group i-1, SRC.DERIV.TYPE
\* equal to that decorator's first child's value exactly when it has
\* children, and SRC.STEM equal to the dictionary of position i-1; position 0
\* has no SRC, so there are n-1 levels of SRC.STEM.
C6_DerivationChain ==
  /\ (op = "node_dictionary" /\ Len(krCodes[1].krNodes) >= 1) =>
       /\ line = 0
       /\ ChainDict(krCodes[1], Len(krCodes[1].krNodes) - 1, dictionary, FALSE)
       /\ StemDepth(dictionary) = Len(krCodes[1].krNodes) - 1
  /\ (/\ op = "kr_to_dictionary"
      /\ analyze(kr_code).ok
      /\ Len(FirstKRCode(kr_code).krNodes) >= 1) =>
       /\ line = 0
       /\ ChainDict(FirstKRCode(kr_code), Len(FirstKRCode(kr_code).krNodes) - 1,
                    dictionary, TRUE)
       /\ StemDepth(dictionary) = Len(FirstKRCode(kr_code).krNodes) - 1

\* The dictionary of position i inside d, the dictionary of position top.
RECURSIVE PositionDict(_, _, _)
PositionDict(d, top, i) ==
  IF i = top THEN d ELSE PositionDict(d[K_SRC][2][K_STEM][2], top - 1, i)

\* What a direct child of a chain node stands for: the key and the value.
AttrKey(c) == IF c.value = S_PLUR THEN K_NUM ELSE c.value
AttrValue(c) ==
  IF c.value = S_PLUR THEN PyStr(S_PLUR)
  ELSE IF c.children = <<>> THEN PyInt(1)
  ELSE PyStr(c.children[1].value)

\* The assignments made for a chain node, in order: CAT, then one per child.
Assigned(node) ==
  <<[key |-> K_CAT, value |-> PyStr(node.value)]>> \o
  [j \in 1..Len(node.children) |->
     [key |-> AttrKey(node.children[j]), value |-> AttrValue(node.children[j])]]

\* node_dictionary returned the dictionary of the chain of krCodes[1].
Built == op = "node_dictionary" /\ line = 0

\* C7 as stated: at every chain position the dictionary has CAT equal to the
\* node's value and, for each direct child, an entry named after the child
\* holding 1 when the child has no children and the first grandchild's value
\* otherwise, a child named PLUR being the entry NUM = "PLUR".
C7_Flattening ==
  Built =>
    \A i \in 0..(Len(krCodes[1].krNodes) - 1) :
      LET node == krCodes[1].krNodes[i + 1]
          d == PositionDict(dictionary, Len(krCodes[1].krNodes) - 1, i)
      IN  /\ d[K_CAT] = PyStr(node.value)
          /\ \A j \in 1..Len(node.children) :
               /\ Has(d, AttrKey(node.children[j]))
               /\ d[AttrKey(node.children[j])] = AttrValue(node.children[j])

\* C7 (amended): at every chain position i the dictionary holds exactly the
\* keys assigned for the node - CAT and one per direct child, PLUR being NUM -
\* and SRC when i > 0; each key other than that SRC holds the value of the
\* last assignment to it, the order being CAT first, then the children as
\* written.  So where no two assignments meet on a key, CAT is the node's
\* value and every child has its own entry.
C7_FlatteningLastWins ==
  Built =>
    \A i \in 0..(Len(krCodes[1].krNodes) - 1) :
      LET as == Assigned(krCodes[1].krNodes[i + 1])
          d == PositionDict(dictionary, Len(krCodes[1].krNodes) - 1, i)
          src == IF i > 0 THEN {K_SRC} ELSE {}
      IN  /\ DOMAIN d = {as[j].key : j \in 1..Len(as)} \cup src
          /\ \A j \in 1..Len(as) :
               (/\ as[j].key \notin src
                /\ \A l \in (j + 1)..Len(as) : as[l].key # as[j].key) =>
                 d[as[j].key] = as[j].value

\* A chain of two positions is flattened: the lower node's PLUR became NUM,
\* and of the upper node's two children named M the later one gave the value.
C7_Witness ==
  /\ Built
  /\ Len(krCodes[1].krNodes) = 2
  /\ Len(krCodes[1].krNodes[2].children) = 2
  /\ krCodes[1].krNodes[2].children[1].value = krCodes[1].krNodes[2].children[2].value
  /\ dictionary[<<"M">>] = PyStr(<<"X">>)
  /\ Has(dictionary[K_SRC][2][K_STEM][2], K_NUM)
  /\ dictionary[K_SRC][2][K_STEM][2][K_NUM] = PyStr(S_PLUR)

\* The defaults of a dictionary, by its CAT.
DefaultsOf(d) ==
  IF d[K_CAT] = PyStr(S_NOUN)
    THEN (K_CAS :> PyStr(S_NOM)) @@ (K_NUM :> PyStr(S_SING)) @@
         (K_ANP :> PyStr(S_0)) @@ (K_DEF :> PyStr(S_0)) @@ (K_POSS :> PyStr(S_0))
  ELSE IF d[K_CAT] = PyStr(S_ADJ) THEN (K_CAS :> PyStr(S_NOM))
  ELSE <<>>

\* r is d with its defaults filled in at every SRC.STEM level and nothing
\* else changed: the keys of r are those of d and the defaults of d's CAT,
\* every key of d keeps its value, a key that was absent holds its default,
\* and SRC keeps its DERIV while its STEM is filled in the same way.
RECURSIVE FilledFrom(_, _)
FilledFrom(r, d) ==
  /\ DOMAIN r = DOMAIN d \cup DOMAIN DefaultsOf(d)
  /\ \A k \in DOMAIN d \ {K_SRC} : r[k] = d[k]
  /\ \A k \in DOMAIN DefaultsOf(d) \ DOMAIN d : r[k] = DefaultsOf(d)[k]
  /\ Has(d, K_SRC) =>
       /\ IsDict(r[K_SRC])
       /\ DOMAIN r[K_SRC][2] = DOMAIN d[K_SRC][2]
       /\ r[K_SRC][2][K_DERIV] = d[K_SRC][2][K_DERIV]
       /\ IsDict(r[K_SRC][2][K_STEM])
       /\ FilledFrom(r[K_SRC][2][K_STEM][2], d[K_SRC][2][K_STEM][2])

\* The dictionary of scenario A: a NOUN without attributes, filled.
FilledNoun ==
  (K_CAT :> PyStr(S_NOUN)) @@ (K_CAS :> PyStr(S_NOM)) @@ (K_NUM :> PyStr(S_SING)) @@
  (K_ANP :> PyStr(S_0)) @@ (K_DEF :> PyStr(S_0)) @@ (K_POSS :> PyStr(S_0))

\* C8: Default filling.  Every call of fill_def_values that returns leaves
\* the dictionary it was given with just the defaults of its CAT added - CAS,
\* NUM, ANP, DEF, POSS for NOUN, CAS for ADJ - at every nested SRC.STEM level:
\* no key that was present changes its value and no other key appears.  The
\* code "x/NOUN" yields exactly CAT, CAS, NUM, ANP, DEF, POSS.
C8_DefaultFilling ==
  [][/\ (CallFillDefValues /\ line' = 0) =>
          /\ FilledFrom(dictionary', dictionary)
          /\ kr_code = <<"x", "/">> \o S_NOUN => dictionary' = FilledNoun
     /\ (CallKrToDictionary /\ kr_code = <<"x", "/">> \o S_NOUN) =>
          (line' = 0 /\ dictionary' = FilledNoun)]_vars

\* fill_def_values returned a filled chain: the ADJ on top took CAS = NOM,
\* the NOUN below kept its NUM = PLUR and took the other four defaults.
C8_Witness ==
  /\ op = "fill_def_values"
  /\ line = 0
  /\ Has(dictionary, K_SRC)
  /\ dictionary[K_CAT] = PyStr(S_ADJ)
  /\ dictionary[K_CAS] = PyStr(S_NOM)
  /\ dictionary[K_SRC][2][K_STEM][2] =
       (K_NUM :> PyStr(S_PLUR)) @@ FilledNoun

\* C9: Idempotence of default filling.  For every dictionary d that
\* node_dictionary built, fill_def_values(fill_def_values(d)) is
\* fill_def_values(d): filling what a call of fill_def_values left gives the
\* same outcome and the same dictionary, and a dictionary that
\* fill_def_values or kr_to_dictionary returned is returned unchanged.
C9_Idempotence ==
  /\ Built =>
       fill_def_values(fill_def_values(dictionary).d) = fill_def_values(dictionary)
  /\ (op \in {"fill_def_values", "kr_to_dictionary"} /\ line = 0) =>
       fill_def_values(dictionary) = [ok |-> TRUE, line |-> 0, d |-> dictionary]

\* A chain of three positions with a NOUN on top has been filled: defaults
\* were added on top and two levels of SRC.STEM were walked.
C9_Witness ==
  /\ op = "fill_def_values"
  /\ line = 0
  /\ StemDepth(dictionary) = 2
  /\ dictionary[K_CAT] = PyStr(S_NOUN)
  /\ Has(dictionary, K_ANP)
  /\ fill_def_values(dictionary).d = dictionary

\* The codes that start with the same constituent as w.
SameFirst(w) == {other \in Codes : Split(other, "+")[1] = Split(w, "+")[1]}

\* C10: Compound decoding.  analyze returns one KRCode per "+"-separated
\* constituent of the code, in order, each the one analyzeConstituent gives
\* for that constituent.  The dictionary kr_to_dictionary returns is the one
\* built from the first constituent only: every code that starts with the
\* same constituent and decodes yields the same dictionary.
C10_CompoundDecoding ==
  /\ (op = "analyze" /\ line = 0) =>
       /\ Len(krCodes) = Len(Split(kr_code, "+"))
       /\ \A k \in 1..Len(krCodes) :
            /\ analyzeConstituent(Split(kr_code, "+")[k]).ok
            /\ krCodes[k] = analyzeConstituent(Split(kr_code, "+")[k]).krCode
  /\ (op = "kr_to_dictionary" /\ line = 0) =>
       /\ dictionary = kr_to_dictionary(Split(kr_code, "+")[1]).d
       /\ \A other \in SameFirst(kr_code) :
            kr_to_dictionary(other).ok => kr_to_dictionary(other).d = dictionary

\* kr_to_dictionary returned the dictionary of a compound of two
\* constituents that analyze decodes into two KRCodes, and the second
\* constituent alone has another dictionary.
C10_Witness ==
  /\ op = "kr_to_dictionary"
  /\ line = 0
  /\ Len(Split(kr_code, "+")) = 2
  /\ Len(analyze(kr_code).krCodes) = 2
  /\ kr_to_dictionary(Split(kr_code, "+")[2]).ok
  /\ kr_to_dictionary(Split(kr_code, "+")[2]).d # dictionary

\* The numbers of the "+"-separated constituents of w that do not parse.
FailingConstituents(w) ==
  {k \in 1..Len(Split(w, "+")) : ~analyzeConstituent(Split(w, "+")[k]).ok}

\* C11: All-or-nothing decoding.  When any constituent of the code fails to
\* parse - the first or a later one - analyze and kr_to_dictionary raise what
\* the first failing constituent raises, and return no KRCode list and no
\* dictionary, whatever the constituents before it decoded to.
C11_AllOrNothing ==
  (op \in {"analyze", "kr_to_dictionary"} /\ FailingConstituents(kr_code) # {}) =>
    LET first == Split(kr_code, "+")[Least(FailingConstituents(kr_code))]
    IN  /\ line # 0
        /\ line = analyzeConstituent(first).line
        /\ stderr = analyzeConstituent(first).stderr
        /\ krCodes = <<>>
        /\ dictionary = EmptyDict

\* kr_to_dictionary raised on a compound whose first constituent has a
\* dictionary of its own and whose second constituent does not parse.
C11_Witness ==
  /\ op = "kr_to_dictionary"
  /\ line # 0
  /\ FailingConstituents(kr_code) = {2}
  /\ kr_to_dictionary(Split(kr_code, "+")[1]).ok
  /\ dictionary = EmptyDict

\* The token main hands to analyze next does not decode.
TokenFails == pc = "tokens" /\ ~analyze(Head(tokens)).ok

\* The lines 279-287 read, one after the other, from line number k on, st
\* being the outcome so far; the run stops at what leaves main.
RECURSIVE OneWordRun(_, _, _)
OneWordRun(lines, k, st) ==
  IF k > Len(lines) \/ st.line # 0 THEN st
  ELSE LET t == Strip(lines[k], {"\n"})
           step == oneWordStep(t, st.inputWord, analyze(t))
       IN  OneWordRun(lines, k + 1,
             [inputWord |-> step.inputWord, line |-> step.line,
              stderr |-> st.stderr \o step.stderr,
              analyzed |-> st.analyzed \o step.analyzed, read |-> k])

\* What the branch of one analysis per line makes of the lines.
OneWordPerLine(lines) ==
  OneWordRun(lines, 1, [inputWord |-> Unbound, line |-> 0, stderr |-> <<>>,
                         analyzed |-> <<>>, read |-> 0])

\* The lines of the input, by number, that are handed to analyze and fail.
FailingLines(lines) ==
  {k \in 1..Len(lines) :
     /\ ~StartsWith(Strip(lines[k], {"\n"}), <<">", " ">>, 0)
     /\ ~analyze(Strip(lines[k], {"\n"})).ok}

\* The "> " lines of the input, by number.
WordLines(lines) ==
  {k \in 1..Len(lines) : StartsWith(Strip(lines[k], {"\n"}), <<">", " ">>, 0)}

\* The BUG lines among what was written to stderr.
BugLines(err) == {k \in 1..Len(err) : err[k].msg = "BUG: "}

\* C12 as stated: in the mode of space-separated tokens per line a token
\* that fails to decode is logged to stderr and main goes on with the tokens
\* and lines that remain; in the mode of one token per line the failure
\* leaves main.
C12_FailurePolicy ==
  /\ [][(MainToken /\ manyWordsPerLine /\ TokenFails) =>
          /\ pc' \in {"tokens", "lines"}
          /\ tokens' = Tail(tokens)
          /\ stdin' = stdin
          /\ Len(stderr') > Len(stderr)]_<<vars, mainVars>>
  /\ [][(MainLine /\ ~manyWordsPerLine /\ line' # 0) => pc' = "raised"]_<<vars, mainVars>>

\* C12 (amended): main runs the mode of space-separated tokens per line, and
\* in it a token that fails to decode is not caught: what analyze raised
\* leaves main at that token, main writes no line of its own for it, no
\* token or line after it is read, and nothing follows.  The branch that
\* catches the failure, writes a "BUG: " line and goes on with the next line
\* is the one of one analysis per line, once a "> " line has named the word;
\* before that its handler raises itself.
C12_FailurePropagates ==
  /\ [][/\ manyWordsPerLine
         /\ pc # "raised"
         /\ (MainToken /\ TokenFails) =>
              /\ pc' = "raised"
              /\ line' = analyze(Head(tokens)).line
              /\ stderr' = stderr \o analyze(Head(tokens)).stderr
              /\ BugLines(stderr') = {}
              /\ UNCHANGED <<stdin, tokens, analyzed>>]_<<vars, mainVars>>
  /\ \A lines \in Stdins :
       LET run == OneWordPerLine(lines)
           early == {k \in FailingLines(lines) : \A j \in WordLines(lines) : k < j}
       IN  /\ run.line \in {0, 287}
           /\ run.line = 287 <=> early # {}
           /\ run.line = 287 => run.read = Least(early)
           /\ run.line = 0 =>
                /\ run.read = Len(lines)
                /\ Cardinality(BugLines(run.stderr)) = Cardinality(FailingLines(lines))

\* main stopped at a token that does not decode, after a token that did and
\* with a line of standard input still unread.
C12_Witness ==
  /\ pc = "raised"
  /\ line = 139
  /\ analyzed # <<>>
  /\ stdin # <<>>
  /\ BugLines(stderr) = {}

\* The events and the calls of the step at hand.
NewEvents == SubSeq(events', Len(events) + 1, Len(events'))
NewCalls == SubSeq(calls', Len(calls) + 1, Len(calls'))

\* The notification that closes the state of a level, and the level closed.
EndOf(level) ==
  Event(CASE level = SENTENCE -> "sentenceEnd" [] level = FIELD -> "fieldEnd"
          [] OTHER -> "documentEnd", <<>>)
LevelOf(name) ==
  CASE name \in {"sentenceStart", "sentenceEnd"} -> SENTENCE
    [] name \in {"fieldStart", "fieldEnd"} -> FIELD
    [] name \in {"documentStart", "documentEnd"} -> PAGE
    [] OTHER -> NONE
IsEnd(e) == e.name \in {"sentenceEnd", "fieldEnd", "documentEnd"}
IsStart(e) == e.name \in {"sentenceStart", "fieldStart", "documentStart"}
Names(es) == {es[k].name : k \in 1..Len(es)}

\* The larger of two numbers.
Max(a, b) == IF a >= b THEN a ELSE b

\* C13: Closing order.  In every step of read - a line or the end of the
\* file - the end notifications come before anything else the step fires,
\* they start at the innermost open state and go outwards one level at a
\* time, and they reach the level the step closes: every open state for a
\* PAGE line and the end of the file, FIELD and above for a Field line, and as
\* many levels as the state drops otherwise (a blank line closes the
\* sentence alone).  documentStart and fieldStart follow them.  The callback
\* methods are called in that order too.
C13_ClosingOrder ==
  [][reading =>
       LET ends == SelectSeq(NewEvents, IsEnd)
       IN  /\ ends = SubSeq(NewEvents, 1, Len(ends))
           /\ Len(ends) <= state
           /\ \A k \in 1..Len(ends) : ends[k] = EndOf(state - k + 1)
           /\ Names(NewEvents) \cap {"documentStart", "fileEnd"} # {} =>
                Len(ends) = state
           /\ "fieldStart" \in Names(NewEvents) => Len(ends) = Max(state - 1, 0)
           /\ Names(NewEvents) \cap {"documentStart", "fieldStart", "sentenceStart",
                                     "fileEnd"} = {} =>
                Len(ends) = state - state'
           /\ (state = SENTENCE /\ NewEvents = <<>> /\ line' = 0) => state' = state
           /\ \A i, j \in 1..Len(NewCalls) :
                (i < j /\ IsEnd(NewCalls[j])) =>
                  /\ IsEnd(NewCalls[i])
                  /\ LevelOf(NewCalls[i].name) >= LevelOf(NewCalls[j].name)
     ]_<<vars, readerVars>>

\* A PAGE line came while a sentence was open: sentenceEnd, fieldEnd and
\* documentEnd were fired, in this order, and documentStart after them, to a
\* registered callback.
C13_Witness ==
  /\ reading
  /\ callbacks # <<>>
  /\ Len(events) >= 4
  /\ SubSeq(events, Len(events) - 3, Len(events)) =
       <<EndOf(SENTENCE), EndOf(FIELD), EndOf(PAGE), Event("documentStart", <<<<"T">>>>)>>

\* The events and the calls of a step of read, fileStart included.
StepEvents == IF ~reading /\ reading' THEN events' ELSE NewEvents
StepCalls == IF ~reading /\ reading' THEN calls' ELSE NewCalls

\* The callback objects of a list in the order of their first registration.
RECURSIVE Registered(_)
Registered(list) ==
  IF list = <<>> THEN <<>>
  ELSE LET before == Registered(SubSeq(list, 1, Len(list) - 1))
       IN  IF list[Len(list)] \in Members(before) THEN before
           ELSE Append(before, list[Len(list)])

\* One call per event and registered callback: event by event, and for each
\* event callback by callback in the order of registration.
DeliveredOnce(evs, cbs) ==
  [k \in 1..(Len(evs) * Len(cbs)) |->
     [callback |-> cbs[((k - 1) % Len(cbs)) + 1],
      name |-> evs[((k - 1) \div Len(cbs)) + 1].name,
      arg |-> evs[((k - 1) \div Len(cbs)) + 1].arg]]

\* C14: Listener dispatch.  Whatever the constructor was given and whatever
\* addCallback and removeCallback calls followed, no callback object is in
\* the reader's list twice, and every event of a read is delivered to every
\* registered callback exactly once, in registration order.
C14_ListenerDispatch ==
  /\ [](\A i, j \in 1..Len(callbacks) : callbacks[i] = callbacks[j] => i = j)
  /\ [][(reading \/ reading') =>
          StepCalls = DeliveredOnce(StepEvents, Registered(callbacks))
       ]_<<vars, readerVars>>

\* The text of a chain part from its first "[" on; empty when it has none.
DecoratorText(part) ==
  IF Find(part, "[") = -1 THEN <<>> ELSE Slice(part, Find(part, "["), Len(part))

\* The text is a concatenation of complete brackets "[" body "]", every body
\* made of the characters a decorator may hold.
RECURSIVE Bracketed(_)
Bracketed(text) ==
  \/ text = <<>>
  \/ /\ text[1] = "["
     /\ Find(text, "]") # -1
     /\ \A k \in 2..Find(text, "]") : KepzoCharOk(text[k])
     /\ Bracketed(Slice(text, Find(text, "]") + 1, Len(text)))

\* The bodies of the brackets of a bracketed text, in input order.
RECURSIVE BodiesOf(_)
BodiesOf(text) ==
  IF text = <<>> THEN <<>>
  ELSE <<Slice(text, 1, Find(text, "]"))>> \o
       BodiesOf(Slice(text, Find(text, "]") + 1, Len(text)))

\* C15: Decorator scanner.  For every chain part that holds a "[", the scan
\* succeeds only if the text from the first "[" on is a concatenation of one
\* or more complete brackets whose bodies hold only A-Z, 0-9, "_", "-", "<"
\* and ">"; a scan that succeeds has appended exactly one tree node per
\* bracket, the tree of that bracket's body, in input order; and a scan fails
\* only because of a "]" before the first "[", text that is not so
\* bracketed, or a body that is no tree.  The group of an accepted token is
\* the one the scan built.
C15_DecoratorScanner ==
  op = "analyzeConstituent" =>
    \A j \in 1..Len(PartsOf(kr_code)) :
      LET part == PartsOf(kr_code)[j]
          text == DecoratorText(part)
          r == scanKepzos(part)
      IN  Find(part, "[") # -1 =>
            /\ r.line = 0 =>
                 /\ Bracketed(text)
                 /\ Len(BodiesOf(text)) >= 1
                 /\ Len(r.kepzoGroup) = Len(BodiesOf(text))
                 /\ \A k \in 1..Len(r.kepzoGroup) :
                      /\ analyzeKR(BodiesOf(text)[k]).ok
                      /\ r.kepzoGroup[k] = analyzeKR(BodiesOf(text)[k]).root
            /\ r.line # 0 =>
                 \/ Find(Slice(part, 0, Find(part, "[")), "]") # -1
                 \/ ~Bracketed(text)
                 \/ \E k \in 1..Len(BodiesOf(text)) : ~analyzeKR(BodiesOf(text)[k]).ok
            /\ line = 0 =>
                 /\ r.line = 0
                 /\ krCodes[1].kepzos[j] = r.kepzoGroup

\* A token whose part holds two brackets is accepted with a group of two
\* nodes, in the order of the brackets.
C15_Witness ==
  /\ op = "analyzeConstituent"
  /\ line = 0
  /\ Len(PartsOf(kr_code)) = 1
  /\ Len(BodiesOf(DecoratorText(PartsOf(kr_code)[1]))) = 2
  /\ Len(krCodes[1].kepzos[1]) = 2
  /\ krCodes[1].kepzos[1][1].value # krCodes[1].kepzos[1][2].value

\* In the tree under n, only nodes with a value have children.
RECURSIVE ValueBeforeChildren(_)
ValueBeforeChildren(n) ==
  /\ n.children # <<>> => n.value # <<>>
  /\ \A k \in 1..Len(n.children) : ValueBeforeChildren(n.children[k])

\* The leaf of the call of descent about to run.
Leaf == leafPath[Len(leafPath)]

\* The character the call of descent about to run reads, "" at the end.
AtOffset == IF offset < Len(fragment) THEN fragment[offset + 1] ELSE ""

\* C16: Tree node invariant.  After every call of descent, every node of the
\* tree being built that has a child, finished or still open, has a value;
\* no call changes a value once given, nor a child once appended; and a call
\* that meets "<" on a leaf without a value, or text on a leaf that has one,
\* raises (lines 64, 81) and leaves the tree as it was, so that analyzeKR
\* fails.
C16_NodeInvariant ==
  /\ [](\A i \in 1..Len(leafPath) :
          /\ i < Len(leafPath) => leafPath[i].value # <<>>
          /\ ValueBeforeChildren(leafPath[i]))
  /\ [][\A i \in 1..Min(Len(leafPath), Len(leafPath')) :
          /\ leafPath[i].value # <<>> => leafPath'[i].value = leafPath[i].value
          /\ Len(leafPath'[i].children) >= Len(leafPath[i].children)
          /\ SubSeq(leafPath'[i].children, 1, Len(leafPath[i].children))
               = leafPath[i].children
       ]_<<vars, descentVars>>
  /\ [][(Descent /\ AtOffset = "<" /\ Leaf.value = <<>>) =>
          (descentPc' = "raised" /\ line' = 64 /\ leafPath' = leafPath)
       ]_<<vars, descentVars>>
  /\ [][(Descent /\ AtOffset \notin {"", "<", ">"} /\ Leaf.value # <<>>) =>
          (descentPc' = "raised" /\ line' = 81 /\ leafPath' = leafPath)
       ]_<<vars, descentVars>>
  /\ [][descentPc = "raised" => (descentPc' = "failed" /\ leafPath' = leafPath)
       ]_<<vars, descentVars>>
  /\ [](descentPc = "failed" => ~analyzeKR(fragment).ok)

\* "A<B>A": text after the child of a node that has its value makes
\* analyzeKR fail at line 81, the tree still A with its one child B.
C16_Witness ==
  /\ descentPc = "failed"
  /\ line = 81
  /\ fragment = <<"A", "<", "B", ">", "A">>
  /\ leafPath = <<[value |-> <<"A">>,
                   children |-> <<[value |-> <<"B">>, children |-> <<>>]>>]>>

\* The "<" and ">" of a text nest and balance, depth of them being open
\* before it.
RECURSIVE NestedFrom(_, _)
NestedFrom(text, depth) ==
  IF text = <<>> THEN depth = 0
  ELSE IF Head(text) = "<" THEN NestedFrom(Tail(text), depth + 1)
  ELSE IF Head(text) = ">" THEN depth > 0 /\ NestedFrom(Tail(text), depth - 1)
  ELSE NestedFrom(Tail(text), depth)

Balanced(text) == NestedFrom(text, 0)

\* The main KR part of a chain part: the text before its first "[".
MainOf(part) ==
  IF Find(part, "[") = -1 THEN part ELSE Slice(part, 0, Find(part, "["))

\* The main KR part, or a decorator, of some part of the token does not
\* balance.
Unbalanced(w) ==
  \E j \in 1..Len(PartsOf(w)) :
    \/ ~Balanced(MainOf(PartsOf(w)[j]))
    \/ /\ Bracketed(DecoratorText(PartsOf(w)[j]))
       /\ \E k \in 1..Len(BodiesOf(DecoratorText(PartsOf(w)[j]))) :
            ~Balanced(BodiesOf(DecoratorText(PartsOf(w)[j]))[k])

\* Nothing but its angle brackets can be wrong with the token: the stem is
\* accepted, no "]" comes before a "[", what follows the first "[" of a part
\* is bracketed, every part but the last has a "[" and every part but the
\* first a main category.
AnglesOnly(w) ==
  /\ realStemOf(Split(w, "/")[1]).line = 0
  /\ Undecorated(PartsOf(w)) = {}
  /\ \A j \in 1..Len(PartsOf(w)) :
       /\ Find(MainOf(PartsOf(w)[j]), "]") = -1
       /\ Bracketed(DecoratorText(PartsOf(w)[j]))
       /\ j > 1 => ~EmptyMain(PartsOf(w)[j])

\* C17: Angle-bracket balance.  A token in which the "<" and ">" of a main KR
\* part or of a decorator do not nest and balance makes analyzeConstituent
\* fail and return no KRCode; when nothing else is wrong with the token, the
\* failure is one of the tree parser (lines 64, 81, 98) or the one of the
\* round-trip comparison (line 202).
C17_AngleBalance ==
  (op = "analyzeConstituent" /\ Unbalanced(kr_code)) =>
    /\ line # 0
    /\ krCodes = <<>>
    /\ AnglesOnly(kr_code) => line \in {64, 81, 98, 202}

\* "x/A<B": the tree parser takes the unclosed "<", and the rendering
\* "x/A<B>" differs from the token.
C17_Witness ==
  /\ op = "analyzeConstituent"
  /\ kr_code = <<"x", "/", "A", "<", "B">>
  /\ analyzeKR(<<"A", "<", "B">>).ok
  /\ line = 202
  /\ krCodes = <<>>

\* analyzeKR is over, having returned or raised.
DescentOver == descentPc \in {"done", "failed"}

\* C18: Termination of the tree parser.  Every call of analyzeKR comes to an
\* end, returning or raising.  Each call of descent returns (to analyzeKR,
\* or to the call waiting at line 68, one leaf fewer being open), raises, or
\* goes on from a pos strictly greater; pos never exceeds the length of the
\* code; and analyzeKR returns a root only when the pos descent returned is
\* that length.  What it then returns or raises is what analyzeKR, taken as
\* a whole, gives for the fragment.
C18_Termination ==
  /\ <>DescentOver
  /\ [][Descent =>
          \/ descentPc' \in {"returned", "raised"}
          \/ Len(leafPath') < Len(leafPath)
          \/ offset' > offset
       ]_<<vars, descentVars>>
  /\ [][offset' >= offset]_<<vars, descentVars>>
  /\ [](offset <= Len(fragment))
  /\ [](descentPc = "done" => offset = Len(fragment))
  /\ [][(AnalyzeKRCheck /\ offset # Len(fragment)) => descentPc' = "raised"
       ]_<<vars, descentVars>>
  /\ [](DescentOver =>
          /\ analyzeKR(fragment).ok = (descentPc = "done")
          /\ analyzeKR(fragment).line = line
          /\ analyzeKR(fragment).stderr = stderr
          /\ descentPc = "done" => analyzeKR(fragment).root = leafPath[1])

\* A fragment with a qualifier has been parsed to its end: the root has its
\* child and pos is the length of the fragment.
C18_Witness ==
  /\ descentPc = "done"
  /\ Len(fragment) >= 4
  /\ offset = Len(fragment)
  /\ leafPath[1].children # <<>>

\* C19: Dictionary building is total on parsed input.  For every code that
\* analyze accepts, kr_to_dictionary returns a dictionary and raises
\* nothing: the first KRCode has at least one chain node, every chain
\* position after the first has a decorator group with a first decorator
\* before it, and the dictionary returned has its CAT.
C19_DictionaryTotal ==
  (op = "kr_to_dictionary" /\ analyze(kr_code).line = 0) =>
    /\ Len(FirstKRCode(kr_code).krNodes) >= 1
    /\ \A i \in 1..(Len(FirstKRCode(kr_code).krNodes) - 1) :
         /\ i <= Len(FirstKRCode(kr_code).kepzos)
         /\ Len(FirstKRCode(kr_code).kepzos[i]) >= 1
    /\ line = 0
    /\ Has(dictionary, K_CAT)

\* The notifications es are well bracketed, open being the levels started
\* and not yet ended before them, innermost last: each end closes the
\* innermost open level, which is its own, and nothing is open at fileEnd.
RECURSIVE Brackets(_, _)
Brackets(es, open) ==
  IF es = <<>> THEN TRUE
  ELSE IF IsStart(Head(es))
    THEN Brackets(Tail(es), Append(open, LevelOf(Head(es).name)))
  ELSE IF IsEnd(Head(es))
    THEN /\ open # <<>>
         /\ open[Len(open)] = LevelOf(Head(es).name)
         /\ Brackets(Tail(es), SubSeq(open, 1, Len(open) - 1))
  ELSE IF Head(es).name = "fileEnd"
    THEN open = <<>> /\ Brackets(Tail(es), open)
  ELSE Brackets(Tail(es), open)

\* C20: Corpus reader event bracketing.  Whatever lines the file holds, the
\* notifications from fileStart on are well bracketed: every documentEnd,
\* fieldEnd and sentenceEnd closes the documentStart, fieldStart or
\* sentenceStart notified last and not yet closed, nothing is open at
\* fileEnd, and when read has returned the last notification is fileEnd and
\* the reader's state is NONE.
C20_EventBracketing ==
  /\ Brackets(events, <<>>)
  /\ (~reading /\ events # <<>> /\ line = 0) =>
       /\ events[Len(events)].name = "fileEnd"
       /\ state = NONE

\* The lines of data among the lines a file may hold: stripped, they are
\* neither empty nor meta lines.
DataLines ==
  {ln \in FileLines : /\ Strip(ln, Whitespace) # <<>>
                      /\ ~StartsWith(Strip(ln, Whitespace), META_HEAD, 0)}

\* The names of the events of a step, in order.
StepNames == [k \in 1..Len(StepEvents) |-> StepEvents[k].name]

\* The events of a step that open, fill or close a sentence.
SentenceEvents ==
  SelectSeq(StepNames, LAMBDA n : n \in {"sentenceStart", "word", "sentenceEnd"})

\* C21: Corpus reader word delivery.  The reader is in state SENTENCE exactly
\* from a sentenceStart to the sentenceEnd that follows it: a step enters
\* SENTENCE only by notifying sentenceStart, leaves it only by notifying
\* sentenceEnd, and notifies neither otherwise.  A word is notified only by
\* a step that ends in SENTENCE, as its last event, the sentence being open
\* before the step or opened by the sentenceStart just before the word.  A
\* sentenceStart is notified only in state FIELD, by a line of data.  A line
\* of data read in state NONE or PAGE notifies nothing and leaves the state
\* as it was.
C21_WordDelivery ==
  /\ [][/\ (state # SENTENCE /\ state' = SENTENCE) =>
            SentenceEvents = <<"sentenceStart", "word">>
        /\ (state = SENTENCE /\ state' # SENTENCE) =>
            SentenceEvents = <<"sentenceEnd">>
        /\ (state = SENTENCE /\ state' = SENTENCE) =>
            SentenceEvents \in {<<>>, <<"word">>}
        /\ (state # SENTENCE /\ state' # SENTENCE) => SentenceEvents = <<>>
       ]_<<vars, readerVars>>
  /\ [][\A k \in 1..Len(StepNames) :
          /\ StepNames[k] = "word" =>
               /\ state' = SENTENCE
               /\ k = Len(StepNames)
               /\ state = SENTENCE \/ (k > 1 /\ StepNames[k - 1] = "sentenceStart")
          /\ StepNames[k] = "sentenceStart" =>
               /\ state = FIELD
               /\ StepNames = <<"sentenceStart", "word">>
               /\ \E ln \in DataLines :
                    StepEvents[2].arg = Split(Strip(ln, Whitespace), "\t")
       ]_<<vars, readerVars>>
  /\ [][\A ln \in DataLines :
          (/\ reading
           /\ state \in {NONE, PAGE}
           /\ LineRead(readLine(state, Strip(ln, Whitespace)))) =>
            (StepEvents = <<>> /\ state' = state /\ line' = 0 /\ reading')
       ]_<<vars, readerVars>>
  /\ [](\A s \in {NONE, PAGE} : \A ln \in DataLines :
          readLine(s, Strip(ln, Whitespace)) = [state |-> s, events |-> <<>>, line |-> 0])

\* After a page and a field have been opened, a line of data has opened a
\* sentence and been delivered as its first word.
C21_Witness ==
  /\ reading
  /\ state = SENTENCE
  /\ Len(events) = 5
  /\ [k \in 1..5 |-> events[k].name]
       = <<"fileStart", "documentStart", "fieldStart", "sentenceStart", "word">>
  /\ events[5].arg = <<<<"w">>, <<"N">>>>
  /\ callbacks # <<>>
  /\ calls[Len(calls)].name = "word"

====
